---- MODULE Spec2Model ----
(***************************************************************************)
(* Render graph of reify: the graph editor, the dependency graph and its   *)
(* reverse topological sort, the graph compiler, the runtime walk and the  *)
(* frame contexts of the display.                                          *)
(*                                                                         *)
(* Arena keys are 0-based in the source and 1-based here (key = index+1).  *)
(* Option<T> is a sequence of length 0 (None) or 1 (Some).                 *)
(* A panic aborts the process: phase = "panicked", panic_msg says which.   *)
(***************************************************************************)
EXTENDS Integers, Sequences, FiniteSets, TLC

\* Bounds of the model.
NumImages == 2
MaxNodes == 4
MaxFrames == 4
NumFrames == 2
EdgeImages == 3
EdgeNodes == 3

\* Number of transient resource banks of a runtime.
TRANSIENT_RESOURCE_INSTANCES == 2

\* Number of nodes the span loop runs, and of span calls a node makes.
MaxSpanNodes == 2
MaxSpanCalls == 3

\* Number of threads sharing the queue, and of calls they make on it.
NumThreads == 2
MaxQueueCalls == 3

\* Allocations made in one arena, and the values they store.
MaxArenaLen == 4
NumArenaValues == 3

\* Draw calls written into one command buffer.
MaxDraws == 2

\* Buffers of the upload pool, their size in bytes, the destination buffers
\* copied to, the largest source length, and the calls made on the pool.
NumUploadBuffers == 2
UploadBufferSize == 4
NumUploadDsts == 2
MaxUploadLen == 6
MaxUploadCalls == 5

\* Capacity of the resource pool, number of owners, and number of create and
\* destroy calls made on the pool.
PoolCap == 2
NumOwners == 2
MaxPoolOps == 4

\* A u32 generation counter is kept as two 16-bit halves <<high, low>>.
U16_RANGE == 65536

VARIABLES
    phase,          \* "editing" | "building" | "built" | "running" | "panicked"
    panic_msg,      \* message of the panic that ended the process, "" if none
    num_images,     \* GraphEditor.images.len()
    image_access,   \* GraphEditor.image_access: per image ImageAccesses
    image_usage,    \* GraphEditor.image_usage: per image the usage flags
    nodes,          \* GraphEditor.nodes: arena of nodes (their inputs and outputs)
    final_image,    \* argument of GraphEditor::build, 0 before build
    gb,             \* GraphBuilder: dep_graph, arena_to_depgraph, next_depth
    cur_depth,      \* GraphBuilder::build: the level being drained
    graph,          \* Option<Graph>: the compiled graph
    frame_counter,  \* Runtime.frame_counter
    image_bindings, \* Runtime.image_bindings: Option<ImageBinding> per image
    transient,      \* Runtime.transient: per bank the images instantiated in it
    current_frame,  \* Display.current_frame
    context_available, \* per frame slot: is the fence signaled
    slot_pending,   \* per frame slot: frame whose submission still uses the slot, 0 if none
    gpu_queue,      \* submissions not yet completed by the GPU, oldest first
    submitted,      \* frames whose command buffer has been submitted
    pc,             \* host loop: "idle" | "waiting" | "recording" | "executed" |
                    \* "err_out_of_date" | "err_suboptimal"
    frame_log,      \* per frame: the commands and queue operations issued for it
    cx,             \* Option<FrameContext>: slot and attached swapchain image
    cmd_log,        \* what the last Runtime::execute recorded, per node
    executed,       \* nodes whose execute() the runtime has called so far
    bank_log,       \* per Runtime::execute call: bank used, frame, was the bank busy
    frame_limit,    \* number of frames the host loop runs
    node_limit,     \* number of nodes the host adds to the editor
    pool,           \* ResourcePool / BufferPool: free_list, generation, ownership, handle
    issued,         \* keys returned by create so far
    destroyed,      \* keys whose destroy has returned
    held,           \* per slot: the owner that acquired the resource and has not released it
    pool_last,      \* the last call on the pool and what it returned
    pool_panic,     \* message of the panic raised by a pool call, "" if none
    pool_ops,       \* number of create and destroy calls so far
    spans,          \* the node loop of Runtime::execute: span counters and label commands
    rpass,          \* a render pass from its builder to the execution of its node
    shared_queue,   \* a Queue shared by threads: the mutex and each thread's position
    arena,          \* an Arena with the keys and values handed to it
    draw,           \* a draw command buffer with its writer and reader
    upload          \* an UploadPool: its buffers, fences and scheduled copies

vars == <<phase, panic_msg, num_images, image_access, image_usage, nodes,
          final_image, gb, cur_depth, graph, frame_counter, image_bindings, transient,
          current_frame, context_available, slot_pending, gpu_queue, submitted,
          pc, cx, frame_log, cmd_log, executed, bank_log, frame_limit, node_limit,
          pool, issued, destroyed, held, pool_last, pool_panic, pool_ops,
          spans, rpass, shared_queue, arena, draw, upload>>

poolVars == <<pool, issued, destroyed, held, pool_last, pool_panic, pool_ops>>

unitVars == <<spans, rpass, shared_queue, arena, draw, upload>>
unitsButSpans == <<rpass, shared_queue, arena, draw, upload>>
unitsButRpass == <<spans, shared_queue, arena, draw, upload>>
unitsButQueue == <<spans, rpass, arena, draw, upload>>
unitsButArena == <<spans, rpass, shared_queue, draw, upload>>
unitsButDraw == <<spans, rpass, shared_queue, arena, upload>>
unitsButUpload == <<spans, rpass, shared_queue, arena, draw>>

programVars == <<phase, panic_msg, num_images, image_access, image_usage, nodes,
                 final_image, gb, cur_depth, graph, frame_counter, image_bindings,
                 transient, current_frame, context_available, slot_pending, gpu_queue,
                 submitted, pc, cx, frame_log, cmd_log, executed, bank_log,
                 frame_limit, node_limit>>

editorVars == <<num_images, image_access, image_usage, nodes>>
buildVars == <<final_image, gb, cur_depth, graph>>
runtimeVars == <<frame_counter, image_bindings, transient, cmd_log, executed, bank_log>>
displayVars == <<current_frame, context_available, slot_pending, gpu_queue,
                 submitted, pc, cx, frame_log>>

None == <<>>
Some(x) == <<x>>
IsSome(o) == Len(o) = 1
Unwrap(o) == o[1]

\* Elements of a sequence.
Range(s) == {s[i] : i \in DOMAIN s}

----------------------------------------------------------------------------
\* ArenaMap: a dense vector of options, grown on insert.

ArenaMapInsert(m, key, value) ==
    LET grown == [i \in 1..(IF Len(m) > key THEN Len(m) ELSE key) |->
                    IF i <= Len(m) THEN m[i] ELSE None]
    IN [grown EXCEPT ![key] = Some(value)]

\* ArenaMap::get: None when out of range or vacant.
ArenaMapGet(m, key) == IF key <= Len(m) THEN m[key] ELSE None

\* Index::index panics unless the entry is in range and occupied.
ArenaMapIndexPanics(m, key) == ~IsSome(ArenaMapGet(m, key))

\* ArenaMap::iter yields only the occupied entries.
ArenaMapValues(m) == {Unwrap(m[i]) : i \in {j \in DOMAIN m : IsSome(m[j])}}

----------------------------------------------------------------------------
\* Declared accesses of node slots.

BlitInput == [stage_mask |-> {"BLIT"}, access_mask |-> {"TRANSFER_READ"},
              layout |-> "TRANSFER_SRC_OPTIMAL", usage |-> {"TRANSFER_SRC"}]
SampledInput == [stage_mask |-> {"FRAGMENT_SHADER"},
                 access_mask |-> {"SHADER_SAMPLED_READ"},
                 layout |-> "SHADER_READ_ONLY_OPTIMAL", usage |-> {"SAMPLED"}]
BlitOutput == [stage_mask |-> {"BLIT"}, access_mask |-> {"TRANSFER_WRITE"},
               layout |-> "TRANSFER_DST_OPTIMAL", usage |-> {"TRANSFER_DST"}]
ColorOutput == [stage_mask |-> {"COLOR_ATTACHMENT_OUTPUT"},
                access_mask |-> {"COLOR_ATTACHMENT_WRITE"},
                layout |-> "COLOR_ATTACHMENT_OPTIMAL",
                usage |-> {"COLOR_ATTACHMENT"}]
DepthOutput == [stage_mask |-> {"EARLY_FRAGMENT_TESTS", "LATE_FRAGMENT_TESTS"},
                access_mask |-> {"DEPTH_STENCIL_ATTACHMENT_READ",
                                 "DEPTH_STENCIL_ATTACHMENT_WRITE"},
                layout |-> "DEPTH_STENCIL_ATTACHMENT_OPTIMAL",
                usage |-> {"DEPTH_STENCIL_ATTACHMENT"}]

InputImage(resource, a) ==
    [resource |-> resource, stage_mask |-> a.stage_mask,
     access_mask |-> a.access_mask, layout |-> a.layout, usage |-> a.usage]

OutputImage(image, consumed, a) ==
    [image |-> image, consumed |-> consumed, stage_mask |-> a.stage_mask,
     access_mask |-> a.access_mask, layout |-> a.layout, usage |-> a.usage]

\* The access a node of the given key declares on its input / output slot.
InputAccessOf(node_key) == IF node_key % 2 = 0 THEN BlitInput ELSE SampledInput
OutputAccessOf(node_key) ==
    IF node_key % 3 = 1 THEN ColorOutput
    ELSE IF node_key % 3 = 2 THEN BlitOutput ELSE DepthOutput

\* The nodes the host may add as node `node_key` over `n` images: at most one
\* image input and at most one image output, the output consuming an image or not.
NodeChoices(node_key, n) ==
    LET ins == {<<>>} \cup {<<InputImage(r, InputAccessOf(node_key))>> : r \in 1..n}
        outs == {<<>>} \cup
                {<<OutputImage(i, c, OutputAccessOf(node_key))>> :
                    i \in 1..n, c \in {None} \cup {Some(k) : k \in 1..n}}
    IN {[inputs |-> i, outputs |-> o] : i \in ins, o \in outs}

----------------------------------------------------------------------------
\* GraphEditor

ImageAccess(node_key, slot) ==
    [node_key |-> node_key, stage_mask |-> slot.stage_mask,
     access_mask |-> slot.access_mask, layout |-> slot.layout]

ImageAccessesDefault == [produced_by |-> None, read_by |-> <<>>, consumed_by |-> None]

\* add_box_node, the loop over the node's image inputs.
RECURSIVE AddInputs(_, _, _)
AddInputs(ia, node_key, inputs) ==
    IF inputs = <<>> THEN ia
    ELSE LET input == Head(inputs)
         IN AddInputs(
                [ia EXCEPT ![input.resource].read_by =
                    Append(@, ImageAccess(node_key, input))],
                node_key, Tail(inputs))

consumer_is_set_ignored(ia, consumed) == FALSE

\* add_box_node: is the consumer of the image already recorded.
consumer_is_set(ia, consumed) == IsSome(ia[consumed].consumed_by)

producer_is_set_ignored(ia, produced) == FALSE

\* add_box_node: is the producer of the image already recorded.
producer_is_set(ia, produced) == IsSome(ia[produced].produced_by)

\* add_box_node, the loop over the node's image outputs; st = [ia, panic].
RECURSIVE AddOutputs(_, _, _)
AddOutputs(st, node_key, outputs) ==
    IF outputs = <<>> \/ st.panic # "" THEN st
    ELSE LET output == Head(outputs)
             acc == ImageAccess(node_key, output)
             consumerSet == IsSome(output.consumed)
                            /\ consumer_is_set(st.ia, Unwrap(output.consumed))
             ia1 == IF IsSome(output.consumed)
                    THEN [st.ia EXCEPT ![Unwrap(output.consumed)].consumed_by = Some(acc)]
                    ELSE st.ia
             producerSet == producer_is_set(ia1, output.image)
             ia2 == [ia1 EXCEPT ![output.image].produced_by = Some(acc)]
         IN IF consumerSet
            THEN [st EXCEPT !.panic = "resource consumer is already set"]
            ELSE IF producerSet
            THEN [st EXCEPT !.panic = "resource producer is already set"]
            ELSE AddOutputs([st EXCEPT !.ia = ia2], node_key, Tail(outputs))

add_box_node(ia, node_key, node) ==
    AddOutputs([ia |-> AddInputs(ia, node_key, node.inputs), panic |-> ""],
               node_key, node.outputs)

RECURSIVE AccumulateUsage_overwrite(_, _)
AccumulateUsage_overwrite(usage, slots) ==
    IF slots = <<>> THEN usage
    ELSE AccumulateUsage_overwrite(
             [usage EXCEPT ![Head(slots).image] = Head(slots).usage],
             Tail(slots))

\* add_box_node: `image_usage[slot's image] |= slot.usage` over a list of slots,
\* each given as [image, usage].
RECURSIVE AccumulateUsage(_, _)
AccumulateUsage(usage, slots) ==
    IF slots = <<>> THEN usage
    ELSE AccumulateUsage(
             [usage EXCEPT ![Head(slots).image] = @ \cup Head(slots).usage],
             Tail(slots))

\* add_box_node: the usage masks after the node's inputs and outputs are added.
add_box_node_usage(usage, node) ==
    AccumulateUsage(
        AccumulateUsage(usage,
            [i \in DOMAIN node.inputs |->
                [image |-> node.inputs[i].resource, usage |-> node.inputs[i].usage]]),
        [i \in DOMAIN node.outputs |->
            [image |-> node.outputs[i].image, usage |-> node.outputs[i].usage]])

\* ImageAccesses::produced_layout; returns [layout, panic].
produced_layout(accesses) ==
    IF IsSome(accesses.produced_by)
    THEN [layout |-> Unwrap(accesses.produced_by).layout, panic |-> ""]
    ELSE [layout |-> "UNDEFINED",
          panic |-> "called Option::unwrap() on a None value"]

\* ImageAccesses::read_layout; returns [layout, panic].
read_layout(accesses) ==
    IF accesses.read_by = <<>> THEN produced_layout(accesses)
    ELSE LET first == Head(accesses.read_by)
             rest == Tail(accesses.read_by)
         IN IF \E i \in DOMAIN rest : rest[i].layout # first.layout
            THEN [layout |-> "UNDEFINED",
                  panic |-> "image is read with multiple layouts"]
            ELSE [layout |-> first.layout, panic |-> ""]

----------------------------------------------------------------------------
\* DepGraph

DepGraphDefault ==
    [nodes |-> <<>>, adjacency |-> <<>>, inv_adjacency |-> <<>>,
     edges |-> <<>>, edge_map |-> <<>>, edge_weights |-> <<>>]

Edge(src, dst) == [src |-> src, dst |-> dst]

NodeDependencyDefault == [is_backedge |-> FALSE, images |-> <<>>]

\* DepGraph::add_node; the new key is Len(dg.nodes) + 1.
DepGraph_add_node(dg, node) ==
    [dg EXCEPT !.nodes = Append(@, node),
               !.adjacency = Append(@, <<>>),
               !.inv_adjacency = Append(@, <<>>)]

\* The assertion of DepGraph::add_edge: the reverse edge is not in edge_map.
add_edge_assert_unchecked(dg, src, dst) == TRUE

add_edge_assert(dg, src, dst) == Edge(dst, src) \notin DOMAIN dg.edge_map

\* DepGraph::add_edge; returns [dg, key, panic].
DepGraph_add_edge(dg, src, dst, dependency) ==
    IF ~add_edge_assert(dg, src, dst)
    THEN [dg |-> dg, key |-> 0,
          panic |-> "assertion failed: circular dependency"]
    ELSE LET edge == Edge(src, dst)
             edge_key == Len(dg.edges) + 1
         IN [dg |-> [dg EXCEPT
                        !.edges = Append(@, edge),
                        !.edge_weights = Append(@, dependency),
                        !.adjacency[src] = Append(@, edge_key),
                        !.inv_adjacency[dst] = Append(@, edge_key),
                        !.edge_map = [e \in DOMAIN dg.edge_map \cup {edge} |->
                                        IF e = edge THEN edge_key ELSE dg.edge_map[e]]],
             key |-> edge_key, panic |-> ""]

edge_mut_or_default_always_adds(dg, src, dst) ==
    DepGraph_add_edge(dg, src, dst, NodeDependencyDefault)

\* DepGraph::edge_mut_or_default; returns [dg, key, panic].
edge_mut_or_default(dg, src, dst) ==
    IF Edge(src, dst) \in DOMAIN dg.edge_map
    THEN [dg |-> dg, key |-> dg.edge_map[Edge(src, dst)], panic |-> ""]
    ELSE DepGraph_add_edge(dg, src, dst, NodeDependencyDefault)

\* DepGraph::outgoing_deps: the weights of the node's outgoing edges, in order.
outgoing_deps(dg, key) ==
    [i \in DOMAIN dg.adjacency[key] |-> dg.edge_weights[dg.adjacency[key][i]]]

\* toposort_reverse: `.all(|&e| edges_seen[e])` over a node's incoming edges.
RECURSIVE all_edges_seen(_, _)
all_edges_seen(inv, edges_seen) ==
    IF inv = <<>> THEN "true"
    ELSE IF ArenaMapIndexPanics(edges_seen, Head(inv)) THEN "panic"
    ELSE IF ~Unwrap(edges_seen[Head(inv)]) THEN "false"
    ELSE all_edges_seen(Tail(inv), edges_seen)

\* toposort_reverse: the loop over the outgoing edges of the popped node.
\* st = [queue, edges_seen, panic].
RECURSIVE TopoMarkEdges(_, _, _)
TopoMarkEdges(dg, adj, st) ==
    IF adj = <<>> \/ st.panic # "" THEN st
    ELSE LET seen == ArenaMapInsert(st.edges_seen, Head(adj), TRUE)
             dependency_key == dg.edges[Head(adj)].dst
             all == all_edges_seen(dg.inv_adjacency[dependency_key], seen)
         IN IF all = "panic"
            THEN [st EXCEPT !.panic = "no entry with key"]
            ELSE TopoMarkEdges(dg, Tail(adj),
                    [st EXCEPT !.edges_seen = seen,
                               !.queue = IF all = "true"
                                         THEN Append(@, dependency_key) ELSE @])

\* toposort_reverse: the final test for unseen edges.
unseen_edge_check(edges_seen) == \E b \in ArenaMapValues(edges_seen) : ~b

\* toposort_reverse: the while loop and the final check; returns [sorted, panic].
RECURSIVE TopoLoop(_, _, _)
TopoLoop(dg, sorted, st) ==
    IF st.panic # "" THEN [sorted |-> <<>>, panic |-> st.panic]
    ELSE IF st.queue = <<>>
    THEN IF unseen_edge_check(st.edges_seen)
         THEN [sorted |-> <<>>, panic |-> "graph has cycles"]
         ELSE [sorted |-> sorted, panic |-> ""]
    ELSE LET node_key == Head(st.queue)
         IN TopoLoop(dg, <<node_key>> \o sorted,
                     TopoMarkEdges(dg, dg.adjacency[node_key],
                                   [st EXCEPT !.queue = Tail(@)]))

\* The initial queue: the nodes with no incoming edge, in key order.
TopoInitialQueue(dg) ==
    SelectSeq([i \in DOMAIN dg.nodes |-> i], LAMBDA k : dg.inv_adjacency[k] = <<>>)

toposort_reverse(dg) ==
    TopoLoop(dg, <<>>,
             [queue |-> TopoInitialQueue(dg), edges_seen |-> <<>>, panic |-> ""])

----------------------------------------------------------------------------
\* NodeDependency: the image dependencies pushed on an edge weight.

add_image_read_after_write_swapped(dep, reader, writer) ==
    [dep EXCEPT !.images = Append(@,
        [image |-> reader.resource,
         src_stage_mask |-> reader.stage_mask,
         dst_stage_mask |-> writer.stage_mask,
         src_access_mask |-> reader.access_mask,
         dst_access_mask |-> writer.access_mask,
         old_layout |-> reader.layout,
         new_layout |-> writer.layout])]

add_image_read_after_write(dep, reader, writer) ==
    [dep EXCEPT !.images = Append(@,
        [image |-> reader.resource,
         src_stage_mask |-> writer.stage_mask,
         dst_stage_mask |-> reader.stage_mask,
         src_access_mask |-> writer.access_mask,
         dst_access_mask |-> reader.access_mask,
         old_layout |-> writer.layout,
         new_layout |-> reader.layout])]

add_image_write_after_read_with_access(dep, writer, reader) ==
    [dep EXCEPT !.images = Append(@,
        [image |-> writer.image,
         src_stage_mask |-> reader.stage_mask,
         dst_stage_mask |-> writer.stage_mask,
         src_access_mask |-> reader.access_mask,
         dst_access_mask |-> writer.access_mask,
         old_layout |-> reader.layout,
         new_layout |-> writer.layout])]

add_image_write_after_read(dep, writer, reader) ==
    [dep EXCEPT !.images = Append(@,
        [image |-> writer.image,
         src_stage_mask |-> reader.stage_mask,
         dst_stage_mask |-> writer.stage_mask,
         src_access_mask |-> {},
         dst_access_mask |-> {},
         old_layout |-> reader.layout,
         new_layout |-> writer.layout])]

add_image_write_after_write(dep, second, first) ==
    [dep EXCEPT !.images = Append(@,
        [image |-> second.image,
         src_stage_mask |-> first.stage_mask,
         dst_stage_mask |-> second.stage_mask,
         src_access_mask |-> first.access_mask,
         dst_access_mask |-> second.access_mask,
         old_layout |-> first.layout,
         new_layout |-> second.layout])]

----------------------------------------------------------------------------
\* GraphBuilder; b = [dep_graph, arena_to_depgraph, next_depth, panic].

GraphBuilderNew ==
    [dep_graph |-> DepGraphDefault, arena_to_depgraph |-> <<>>,
     next_depth |-> {}, panic |-> ""]

\* GraphBuilder::dependency_mut; returns [b, key], key the edge src -> dst.
dependency_mut(b, src, dst) ==
    LET src_dep_key == Unwrap(ArenaMapGet(b.arena_to_depgraph, src))
        vacant == ~IsSome(ArenaMapGet(b.arena_to_depgraph, dst))
        b1 == IF vacant
              THEN [b EXCEPT
                      !.next_depth = @ \cup {dst},
                      !.dep_graph = DepGraph_add_node(@, dst),
                      !.arena_to_depgraph =
                          ArenaMapInsert(@, dst, Len(b.dep_graph.nodes) + 1)]
              ELSE b
        dst_dep_key == Unwrap(ArenaMapGet(b1.arena_to_depgraph, dst))
        r == edge_mut_or_default(b1.dep_graph, src_dep_key, dst_dep_key)
    IN [b |-> [b1 EXCEPT !.dep_graph = r.dg, !.panic = r.panic], key |-> r.key]

\* GraphBuilder::visit, the loop over the node's image inputs.
RECURSIVE VisitInputs(_, _, _, _)
VisitInputs(ia, b, node_key, inputs) ==
    IF inputs = <<>> \/ b.panic # "" THEN b
    ELSE LET input == Head(inputs)
             accesses == ia[input.resource]
         IN IF ~IsSome(accesses.produced_by)
            THEN [b EXCEPT !.panic = "no producer for image"]
            ELSE LET producer == Unwrap(accesses.produced_by)
                     d == dependency_mut(b, node_key, producer.node_key)
                     b2 == IF d.b.panic # "" THEN d.b
                           ELSE [d.b EXCEPT !.dep_graph.edge_weights[d.key] =
                                    add_image_read_after_write(@, input, producer)]
                 IN VisitInputs(ia, b2, node_key, Tail(inputs))

\* GraphBuilder::visit, the loop over the readers of a consumed image.
RECURSIVE VisitReaders(_, _, _, _)
VisitReaders(b, node_key, output, readers) ==
    IF readers = <<>> \/ b.panic # "" THEN b
    ELSE LET reader == Head(readers)
             d == dependency_mut(b, node_key, reader.node_key)
             b2 == IF d.b.panic # "" THEN d.b
                   ELSE [d.b EXCEPT !.dep_graph.edge_weights[d.key] =
                            add_image_write_after_read(@, output, reader)]
         IN VisitReaders(b2, node_key, output, Tail(readers))

\* The nodes an output that consumes an image depends on: the readers of the
\* consumed image, or its producer when it has no readers.
ConsumedReaders(consumed_accesses) == consumed_accesses.read_by

\* GraphBuilder::visit, the loop over the node's image outputs.
RECURSIVE VisitOutputs(_, _, _, _)
VisitOutputs(ia, b, node_key, outputs) ==
    IF outputs = <<>> \/ b.panic # "" THEN b
    ELSE LET output == Head(outputs)
         IN IF ~IsSome(output.consumed)
            THEN VisitOutputs(ia, b, node_key, Tail(outputs))
            ELSE LET consumed_accesses == ia[Unwrap(output.consumed)]
                 IN IF ConsumedReaders(consumed_accesses) = <<>>
                    THEN IF ~IsSome(consumed_accesses.produced_by)
                         THEN [b EXCEPT !.panic =
                                  "called Option::unwrap() on a None value"]
                         ELSE LET producer == Unwrap(consumed_accesses.produced_by)
                                  d == dependency_mut(b, node_key, producer.node_key)
                                  b2 == IF d.b.panic # "" THEN d.b
                                        ELSE [d.b EXCEPT
                                                !.dep_graph.edge_weights[d.key] =
                                                    add_image_write_after_write(
                                                        @, output, producer)]
                              IN VisitOutputs(ia, b2, node_key, Tail(outputs))
                    ELSE VisitOutputs(ia,
                            VisitReaders(b, node_key, output,
                                         ConsumedReaders(consumed_accesses)),
                            node_key, Tail(outputs))

\* GraphBuilder::visit
visit(ia, nds, b, node_key) ==
    VisitOutputs(ia, VisitInputs(ia, b, node_key, nds[node_key].inputs),
                 node_key, nds[node_key].outputs)

\* GraphBuilder::build up to its loop: the root is added and is the first level.
GraphBuilderBegin(init) ==
    [GraphBuilderNew EXCEPT
        !.dep_graph = DepGraph_add_node(@, init),
        !.arena_to_depgraph = ArenaMapInsert(@, init, 1)]

\* GraphEditor::build after the builder's loop: sort and freeze.
\* Returns [graph, panic].
Freeze(ia, usage, nds, final, dg) ==
    LET t == toposort_reverse(dg)
    IN IF t.panic # "" THEN [graph |-> None, panic |-> t.panic]
       ELSE [graph |-> Some([swapchain_image |-> final,
                             image_access |-> ia,
                             image_usage |-> usage,
                             graph |-> dg,
                             graph_order |-> t.sorted,
                             nodes |-> nds]),
             panic |-> ""]

----------------------------------------------------------------------------
\* Runtime

\* Bindings::get: the binding set for the image, ImageBinding::Transient by default.
BindingOf(bindings, image) ==
    IF IsSome(ArenaMapGet(bindings, image))
    THEN Unwrap(ArenaMapGet(bindings, image)) ELSE "Transient"

\* Runtime::transient_idx (banks are numbered from 0).
transient_idx(counter) == counter % TRANSIENT_RESOURCE_INSTANCES

\* The frame counter Runtime::execute leaves behind.
frame_counter_after_execute(counter) == counter

\* Runtime::resolve_resources: the bank after every transient image is instantiated.
resolve_resources(g, bindings, bank) ==
    bank \cup {i \in DOMAIN g.image_access : BindingOf(bindings, i) = "Transient"}

\* The physical image a graph image resolves to in this execution.
PhysicalImage(bindings, bank_idx, frame_cx, image) ==
    IF BindingOf(bindings, image) = "Transient"
    THEN [kind |-> "transient", bank |-> bank_idx, image |-> image]
    ELSE [kind |-> "swapchain", bank |-> 0, image |-> frame_cx.image]

image_barrier_without_transition(dep, img) ==
    [image |-> img,
     src_stage_mask |-> dep.src_stage_mask,
     src_access_mask |-> dep.src_access_mask,
     dst_stage_mask |-> dep.dst_stage_mask,
     dst_access_mask |-> dep.dst_access_mask,
     old_layout |-> dep.new_layout,
     new_layout |-> dep.new_layout,
     graph_image |-> dep.image]

\* Graph::image_barrier
image_barrier(dep, img) ==
    [image |-> img,
     src_stage_mask |-> dep.src_stage_mask,
     src_access_mask |-> dep.src_access_mask,
     dst_stage_mask |-> dep.dst_stage_mask,
     dst_access_mask |-> dep.dst_access_mask,
     old_layout |-> dep.old_layout,
     new_layout |-> dep.new_layout,
     graph_image |-> dep.image]

InitialBarrier_keeping_layout(out, img) ==
    [image |-> img,
     src_stage_mask |-> out.stage_mask,
     src_access_mask |-> out.access_mask,
     dst_stage_mask |-> out.stage_mask,
     dst_access_mask |-> out.access_mask,
     old_layout |-> out.layout,
     new_layout |-> out.layout,
     graph_image |-> out.image]

\* Runtime::execute: the transition from UNDEFINED of an output that consumes nothing.
InitialBarrier(out, img) ==
    [image |-> img,
     src_stage_mask |-> out.stage_mask,
     src_access_mask |-> out.access_mask,
     dst_stage_mask |-> out.stage_mask,
     dst_access_mask |-> out.access_mask,
     old_layout |-> "UNDEFINED",
     new_layout |-> out.layout,
     graph_image |-> out.image]

RECURSIVE Flatten(_)
Flatten(ss) == IF ss = <<>> THEN <<>> ELSE Head(ss) \o Flatten(Tail(ss))

\* Runtime::execute: the barriers recorded before the node of dep_key runs.
NodeBarriers(g, bindings, bank_idx, frame_cx, dep_key) ==
    LET node == g.nodes[g.graph.nodes[dep_key]]
        fresh == SelectSeq(node.outputs, LAMBDA out : ~IsSome(out.consumed))
        initial == [i \in DOMAIN fresh |->
                      InitialBarrier(fresh[i],
                          PhysicalImage(bindings, bank_idx, frame_cx, fresh[i].image))]
        deps == outgoing_deps(g.graph, dep_key)
        synced == Flatten([i \in DOMAIN deps |->
                      [j \in DOMAIN deps[i].images |->
                          image_barrier(deps[i].images[j],
                              PhysicalImage(bindings, bank_idx, frame_cx,
                                            deps[i].images[j].image))]])
    IN initial \o synced

ExecuteWalk_every_node(g, bindings, bank_idx, frame_cx) ==
    [i \in DOMAIN g.nodes |-> [node |-> i, barriers |-> <<>>]]

\* Runtime::execute: the walk over graph_order; one entry per node executed.
ExecuteWalk(g, bindings, bank_idx, frame_cx) ==
    [i \in DOMAIN g.graph_order |->
        [node |-> g.graph.nodes[g.graph_order[i]],
         barriers |-> NodeBarriers(g, bindings, bank_idx, frame_cx, g.graph_order[i])]]

----------------------------------------------------------------------------
\* Display and frame contexts

\* Display::acquire_frame_context: the slot of the frame.
FrameSlot(frame) == frame % NumFrames

acquire_context_no_wait(fences, slot) == TRUE

\* FrameResources::acquire_context returns once the fence is signaled.
acquire_context(fences, slot) == fences[slot]

FrameResources_create_unsignaled(slot) == FALSE

\* FrameResources::create: the state of the slot's new context_available
\* fence, created with FenceCreateFlags::SIGNALED.
FrameResources_create(slot) == TRUE

\* FrameResources::destroy, as Display::recreate calls it for every slot: the
\* only blocking waits are those of frame acquisition, so the slot's objects
\* are destroyed whatever the state of its fence.
FrameResources_destroy(fences, slot) == TRUE

\* AvailableFrameContext::attach: what it records into the slot's command buffer.
attach(slot, image) ==
    <<[op |-> "reset_command_pool", slot |-> slot],
      [op |-> "begin_command_buffer", slot |-> slot],
      [op |-> "cmd_pipeline_barrier2", image |-> image,
       old_layout |-> "UNDEFINED", new_layout |-> "COLOR_ATTACHMENT_OPTIMAL"]>>

AcquireNextImage(slot, outcome) ==
    [op |-> "acquire_next_image_2", semaphore |-> <<"image_available", slot>>,
     result |-> outcome]

acquire_frame_context_attaching_first(slot, frame, outcome, acquired) ==
    [result |-> IF outcome = "out_of_date" THEN "OutOfDate"
                ELSE IF outcome = "suboptimal" THEN "Suboptimal" ELSE "Ok",
     cx     |-> IF outcome = "out_of_date" THEN None
                ELSE Some([slot |-> slot, frame |-> frame, image |-> acquired,
                           suboptimal |-> (outcome = "suboptimal")]),
     issued |-> attach(slot, acquired) \o <<AcquireNextImage(slot, outcome)>>]

\* Display::acquire_frame_context after the fence wait: the image is acquired, and
\* unless the swapchain is out of date the context is attached to it.
acquire_frame_context(slot, frame, outcome, acquired) ==
    IF outcome = "out_of_date"
    THEN [result |-> "OutOfDate", cx |-> None,
          issued |-> <<AcquireNextImage(slot, outcome)>>]
    ELSE [result |-> IF outcome = "suboptimal" THEN "Suboptimal" ELSE "Ok",
          cx     |-> Some([slot |-> slot, frame |-> frame, image |-> acquired,
                           suboptimal |-> (outcome = "suboptimal")]),
          issued |-> <<AcquireNextImage(slot, outcome)>> \o attach(slot, acquired)]

submit_and_present_presenting_first(slot, image) ==
    <<[op |-> "cmd_pipeline_barrier2", image |-> image,
       old_layout |-> "COLOR_ATTACHMENT_OPTIMAL", new_layout |-> "PRESENT_SRC_KHR"],
      [op |-> "end_command_buffer", slot |-> slot],
      [op |-> "present", wait |-> {<<"all_commands_complete", slot>>}, image |-> image],
      [op |-> "reset_fences", fence |-> <<"context_available", slot>>],
      [op |-> "submit2", wait |-> {<<"image_available", slot>>},
       signal |-> {<<"all_commands_complete", slot>>},
       fence |-> <<"context_available", slot>>]>>

\* FrameContext::submit_and_present: the commands and queue operations, in order.
submit_and_present(slot, image) ==
    <<[op |-> "cmd_pipeline_barrier2", image |-> image,
       old_layout |-> "COLOR_ATTACHMENT_OPTIMAL", new_layout |-> "PRESENT_SRC_KHR"],
      [op |-> "end_command_buffer", slot |-> slot],
      [op |-> "reset_fences", fence |-> <<"context_available", slot>>],
      [op |-> "submit2", wait |-> {<<"image_available", slot>>},
       signal |-> {<<"all_commands_complete", slot>>},
       fence |-> <<"context_available", slot>>],
      [op |-> "present", wait |-> {<<"all_commands_complete", slot>>}, image |-> image]>>

\* Is a submission of the frame still in the GPU's queue.
InFlight(queue, frame) == \E i \in DOMAIN queue : queue[i].frame = frame

\* The frame of the last execute call that used the bank, 0 if none.
RECURSIVE LastUserOf(_, _)
LastUserOf(log, bank) ==
    IF log = <<>> THEN 0
    ELSE IF log[Len(log)].bank = bank THEN log[Len(log)].frame
    ELSE LastUserOf(SubSeq(log, 1, Len(log) - 1), bank)

----------------------------------------------------------------------------
\* Initial state: an empty editor, a display whose frame slots are all available.

DisplayInit ==
    /\ current_frame = 0
    /\ context_available = [s \in 0..(NumFrames - 1) |-> FrameResources_create(s)]
    /\ slot_pending = [s \in 0..(NumFrames - 1) |-> 0]
    /\ gpu_queue = <<>>
    /\ submitted = {}
    /\ pc = "idle"
    /\ cx = None
    /\ frame_log = [f \in 1..MaxFrames |-> <<>>]

RuntimeInit ==
    /\ frame_counter = 0
    /\ image_bindings = <<>>
    /\ transient = [b \in 0..(TRANSIENT_RESOURCE_INSTANCES - 1) |-> {}]
    /\ cmd_log = <<>>
    /\ executed = {}
    /\ bank_log = <<>>

----------------------------------------------------------------------------
\* The generational resource pools (ResourcePool<T> and BufferPool).

Slots == 0..(PoolCap - 1)
Owners == 1..NumOwners

u32_ZERO == <<0, 0>>
u32_MAX == <<U16_RANGE - 1, U16_RANGE - 1>>

u32_lt(a, b) == a[1] < b[1] \/ (a[1] = b[1] /\ a[2] < b[2])

\* self.generation[index] += 1 on a u32: with overflow checks (the debug
\* profile) it panics at u32::MAX, without them (the release profile) it wraps.
u32_add_one(g, profile) ==
    IF g = u32_MAX
    THEN IF profile = "debug"
         THEN [value |-> g, panic |-> "attempt to add with overflow"]
         ELSE [value |-> u32_ZERO, panic |-> ""]
    ELSE [value |-> IF g[2] + 1 < U16_RANGE THEN <<g[1], g[2] + 1>> ELSE <<g[1] + 1, 0>>,
          panic |-> ""]

\* FreeList::with_capacity: slot i links to slot i + 1, the head is slot 0.
FreeList_with_capacity(cap) ==
    [head  |-> Some(0),
     links |-> [i \in 0..(cap - 1) |-> IF i < cap - 1 THEN Some(i + 1) ELSE None]]

\* FreeList::pop
FreeList_pop(fl) ==
    IF fl.head = None
    THEN [index |-> None, free_list |-> fl]
    ELSE LET index == Unwrap(fl.head)
         IN [index |-> Some(index),
             free_list |-> [head  |-> fl.links[index],
                            links |-> [fl.links EXCEPT ![index] = None]]]

\* FreeList::push; the debug_assert is compiled in the debug profile only.
FreeList_push(fl, index, profile) ==
    [free_list |-> [head  |-> Some(index),
                    links |-> [fl.links EXCEPT ![index] = fl.head]],
     panic |-> IF profile = "debug" /\ fl.links[index] # None
               THEN "assertion failed: self.links[index].next_free.is_none()"
               ELSE ""]

\* A slot of RawPool<Ownership>: MaybeUninit, written or not.
OwnershipUninit == [init |-> FALSE, owner |-> None]

\* Ownership::new
OwnershipNew == [init |-> TRUE, owner |-> None]

\* assume_init on the slot: an unwritten slot holds any value.
AssumeInit(slot) ==
    IF slot.init THEN {slot.owner} ELSE {None} \cup {Some(o) : o \in Owners}

\* Ownership::acquire
Ownership_acquire(cur, owner) ==
    IF IsSome(cur)
    THEN [owner |-> cur,
          panic |-> IF Unwrap(cur) = owner THEN ""
                    ELSE "assertion left == right failed"]
    ELSE [owner |-> Some(owner), panic |-> ""]

\* Ownership::release
Ownership_release(cur, owner) ==
    [owner |-> None,
     panic |-> IF IsSome(cur)
               THEN IF Unwrap(cur) = owner THEN ""
                    ELSE "assertion left == right failed"
               ELSE "im not owned! im not owned!!"]

\* ResourcePool::with_capacity, BufferPool::with_capacity
with_capacity(kind, profile, cap) ==
    [kind       |-> kind,
     profile    |-> profile,
     free_list  |-> FreeList_with_capacity(cap),
     generation |-> [i \in 0..(cap - 1) |-> u32_ZERO],
     ownership  |-> [i \in 0..(cap - 1) |-> OwnershipUninit],
     handle     |-> [i \in 0..(cap - 1) |-> "uninit"]]

ResourceKey(generation, index) == [generation |-> generation, index |-> index]

\* ResourcePool::check_key, BufferPool::check_key
check_key(p, key) == key.generation = p.generation[key.index]

\* ResourcePool::handle, BufferPool::handle
handle(p, key) ==
    IF ~check_key(p, key) THEN None ELSE Some(p.handle[key.index])

\* ResourcePool::cold
cold(p, key) ==
    IF ~check_key(p, key) THEN None ELSE Some(p.handle[key.index])

\* ResourcePool::acquire, BufferPool::acquire; cur is the value read from the
\* slot's Ownership.
acquire(p, key, owner, cur) ==
    IF ~check_key(p, key)
    THEN [result |-> None, pool |-> p, panic |-> ""]
    ELSE LET r == Ownership_acquire(cur, owner)
         IN [result |-> IF r.panic = "" THEN Some("state") ELSE None,
             pool   |-> [p EXCEPT !.ownership[key.index] =
                                      [init |-> TRUE, owner |-> r.owner]],
             panic  |-> r.panic]

\* ResourcePool::release, BufferPool::release
release(p, key, owner, cur) ==
    IF ~check_key(p, key)
    THEN [pool |-> p, panic |-> "stale key"]
    ELSE LET r == Ownership_release(cur, owner)
         IN [pool  |-> [p EXCEPT !.ownership[key.index] =
                                     [init |-> TRUE, owner |-> r.owner]],
             panic |-> r.panic]

\* ResourcePool::create, BufferPool::create: only BufferPool writes the
\* Ownership (inside the cold storage).
create(p) ==
    LET popped == FreeList_pop(p.free_list)
    IN IF popped.index = None
       THEN [result |-> None, pool |-> p]
       ELSE LET index == Unwrap(popped.index)
            IN [result |-> Some(ResourceKey(p.generation[index], index)),
                pool   |-> [p EXCEPT
                              !.free_list = popped.free_list,
                              !.handle[index] = "live",
                              !.ownership[index] =
                                  IF p.kind = "BufferPool" THEN OwnershipNew ELSE @]]

\* The key check of destroy: ResourcePool compares for equality, BufferPool
\* rejects only a key older than the slot.
destroy_rejects(p, key) ==
    IF p.kind = "BufferPool"
    THEN u32_lt(key.generation, p.generation[key.index])
    ELSE ~check_key(p, key)

\* ResourcePool::destroy, BufferPool::destroy; cur is the value read from the
\* slot's Ownership. done tells whether the call returned.
destroy(p, key, cur) ==
    IF destroy_rejects(p, key)
    THEN [pool |-> p, panic |-> "already destroyed", done |-> FALSE]
    ELSE LET index == key.index
             gone == [p EXCEPT !.handle[index] = "destroyed",
                               !.ownership[index] = [init |-> TRUE, owner |-> cur]]
             inc == u32_add_one(p.generation[index], p.profile)
             pushed == FreeList_push(p.free_list, index, p.profile)
         IN IF IsSome(cur)
            THEN [pool  |-> IF p.kind = "BufferPool" THEN p ELSE gone,
                  panic |-> "attempted to destroy resource still owned by",
                  done  |-> FALSE]
            ELSE IF inc.panic # ""
            THEN [pool |-> gone, panic |-> inc.panic, done |-> FALSE]
            ELSE IF pushed.panic # ""
            THEN [pool  |-> [gone EXCEPT !.generation[index] = inc.value],
                  panic |-> pushed.panic, done |-> FALSE]
            ELSE [pool  |-> [gone EXCEPT !.generation[index] = inc.value,
                                         !.free_list = pushed.free_list],
                  panic |-> "", done |-> TRUE]

NoCall == [op |-> "none", key |-> ResourceKey(u32_ZERO, 0), owner |-> 0,
           result |-> None, held |-> None]

\* Device::create: the device's BufferPool, before any call on it.
PoolIdle ==
    /\ pool = with_capacity("BufferPool", "debug", PoolCap)
    /\ issued = {}
    /\ destroyed = {}
    /\ held = [i \in Slots |-> None]
    /\ pool_last = NoCall
    /\ pool_panic = ""
    /\ pool_ops = 0

----------------------------------------------------------------------------
\* Debug spans of Runtime::execute's node loop.

\* Runtime::execute: the RunContext is created with no active span.
SpansIdle ==
    [pc          |-> "loop",   \* "loop" | "node" | "panicked"
     run_spans   |-> 0,        \* run_cx.num_active_debug_spans
     copy_spans  |-> 0,        \* node_cx.run_cx.num_active_debug_spans (a copy)
     node_spans  |-> 0,        \* node_cx.num_active_debug_spans
     commands    |-> <<>>,     \* label commands recorded in the command buffer
     step_start  |-> 0,        \* number of commands before the current node's step
     steps       |-> 0,        \* nodes whose step has returned
     calls       |-> 0,        \* span calls made by the current node
     stray       |-> 0]        \* spans of the current node closed by its context

\* RunContext::enter_debug_span
RunContext_enter_debug_span(count, commands, label) ==
    [count    |-> count + 1,
     commands |-> Append(commands, [op |-> "cmd_begin_debug_utils_label", label |-> label])]

\* RunContext::exit_debug_span: the counter is checked but not decremented.
RunContext_exit_debug_span(count, commands) ==
    IF count = 0
    THEN [count |-> count, commands |-> commands]
    ELSE [count    |-> count,
          commands |-> Append(commands, [op |-> "cmd_end_debug_utils_label", label |-> ""])]

\* NodeContext::enter_debug_span
NodeContext_enter_debug_span(sp, label) ==
    LET r == RunContext_enter_debug_span(sp.copy_spans, sp.commands, label)
    IN [sp EXCEPT !.copy_spans = r.count, !.commands = r.commands,
                  !.node_spans = @ + 1]

\* NodeContext::exit_debug_span
NodeContext_exit_debug_span(sp) ==
    IF sp.node_spans = 0
    THEN sp
    ELSE LET r == RunContext_exit_debug_span(sp.copy_spans, sp.commands)
         IN [sp EXCEPT !.copy_spans = r.count, !.commands = r.commands,
                       !.node_spans = @ - 1]

RECURSIVE exit_all_debug_spans(_)
\* NodeContext::exit_all_debug_spans
exit_all_debug_spans(sp) ==
    IF sp.node_spans > 0
    THEN exit_all_debug_spans(NodeContext_exit_debug_span(sp))
    ELSE sp

NodeContext_drop_leaving_spans(sp) == sp

RECURSIVE NodeContext_drop(_)
\* impl Drop for NodeContext
NodeContext_drop(sp) ==
    IF sp.node_spans > 0
    THEN NodeContext_drop(NodeContext_exit_debug_span(sp))
    ELSE sp

\* The labels a RenderPass may declare for its color attachments, in slice order.
PassLabels == <<"out_color", "out_normal">>

\* RenderPassBuilder::new over a pass that declares the given attachments.
RenderPassBuilder_new(colors, depth) ==
    [pc |-> "builder",        \* "builder" | "node" | "compiled" | "executed" | "panicked"
     color_attachments |-> colors,      \* RenderPass::color_attachments (labels)
     depth_attachment  |-> depth,       \* RenderPass::depth_attachment is Some
     slots |-> [color_attachments |-> <<>>,        \* label -> image, as a function
                depth_stencil_attachment |-> None],
     outputs |-> <<>>,
     graph |-> None,
     panic |-> ""]

RpassIdle == RenderPassBuilder_new(<<>>, FALSE)

\* RenderPassBuilder::set_color_attachment; returns [slots, panic].
set_color_attachment(rp, label, image) ==
    IF label \notin Range(rp.color_attachments)
    THEN [slots |-> rp.slots, panic |-> "No slot with the label"]
    ELSE IF label \in DOMAIN rp.slots.color_attachments
    THEN [slots |-> rp.slots,
          panic |-> "assertion failed: !self.slots.color_attachments.contains_key(&label)"]
    ELSE [slots |-> [rp.slots EXCEPT !.color_attachments =
                        [l \in DOMAIN rp.slots.color_attachments \cup {label} |->
                            IF l = label THEN image ELSE rp.slots.color_attachments[l]]],
          panic |-> ""]

\* RenderPassBuilder::set_depth_stencil_attachment
set_depth_stencil_attachment(rp, image) ==
    [rp.slots EXCEPT !.depth_stencil_attachment = Some(image)]

\* RenderPassBuilder::build: the outputs of the node, one per attached slot.
RenderPassBuilder_build(rp) ==
    LET attached == SelectSeq(PassLabels,
                        LAMBDA l : l \in DOMAIN rp.slots.color_attachments)
        colors == [i \in DOMAIN attached |->
                      OutputImage(rp.slots.color_attachments[attached[i]], None, ColorOutput)]
        depth == IF IsSome(rp.slots.depth_stencil_attachment)
                 THEN <<OutputImage(Unwrap(rp.slots.depth_stencil_attachment), None,
                                    DepthOutput)>>
                 ELSE <<>>
    IN colors \o depth

\* RenderPassNode::execute: the panic it ends with, "" if it records the pass.
RenderPassNode_execute(rp) ==
    IF \E i \in DOMAIN rp.color_attachments :
          rp.color_attachments[i] \notin DOMAIN rp.slots.color_attachments
    THEN "no such attachment"
    ELSE IF rp.color_attachments = <<>>
    THEN "index out of bounds: the len is 0 but the index is 0"
    ELSE IF rp.depth_attachment /\ rp.slots.depth_stencil_attachment = None
    THEN "node missing depth/stencil attachment"
    ELSE ""

\* RenderPassNode::execute: the attachments of the RenderingInfo handed to
\* cmd_begin_rendering, each with the image layout it names.
RenderPassNode_rendering_info(rp) ==
    [i \in DOMAIN rp.color_attachments |->
        [image  |-> rp.slots.color_attachments[rp.color_attachments[i]],
         layout |-> "COLOR_ATTACHMENT_OPTIMAL"]]
    \o (IF rp.depth_attachment
        THEN <<[image  |-> Unwrap(rp.slots.depth_stencil_attachment),
                layout |-> "DEPTH_ATTACHMENT_OPTIMAL"]>>
        ELSE <<>>)

Threads == 1..NumThreads

QueueOps == {"begin_debug_utils_label", "end_debug_utils_label", "present",
             "submit2", "wait_idle"}

\* QueueStorage::create: the timeline starts at 0 and the mutex is free.
QueueIdle ==
    [timeline_value |-> 0,
     handle  |-> [locked_by |-> 0, poisoned |-> FALSE],    \* Mutex<vk::Queue>
     threads |-> [t \in Threads |->
                    [pc |-> "idle",    \* "idle" | "lock" | "raw" | "panicked"
                     op |-> "none", timeline_value |-> 0]],
     returned |-> <<>>,   \* the SubmissionIds returned, in the order of queue_submit2
     calls   |-> 0]

Mutex_lock_unguarded(m) == TRUE

\* Mutex::lock returns when no thread holds the mutex.
Mutex_lock(m) == m.locked_by = 0
ArenaValues == 1..NumArenaValues

\* Arena::default: no items. returned is the list of (key, value) pairs
\* the callers got back from alloc and alloc_with_key.
ArenaIdle == [items |-> <<>>, returned |-> <<>>, panic |-> ""]

\* usize -> u32 try_into: fits when the length is below 2^32.
fits_u32(n) == n \div U16_RANGE < U16_RANGE

Arena_next_key_first(items) == [index |-> 0]

\* Arena::next_key: the key of the next item is the current length.
Arena_next_key(items) == [index |-> Len(items)]

\* Arena::alloc: returns [items, key].
Arena_alloc(items, item) ==
    [items |-> Append(items, item), key |-> Arena_next_key(items)]

\* Arena::alloc_with_key with f = the closure that stores its key beside v.
Arena_alloc_with_key(items, v) ==
    Arena_alloc(items, [value |-> v, key |-> Arena_next_key(items)])

\* Index<Key<T>> for Arena<T>: items[key.index()] (Vec indices start at 0).
Arena_index(items, key) == items[key.index + 1]
\* u32 words are kept as <<high, low>> 16-bit halves. The DrawFlags bits
\* 1 << 28 .. 1 << 31 are bits 12 .. 15 of the high half.
INSTANCE_BASE  == <<4096, 0>>
INSTANCE_COUNT == <<8192, 0>>
VERTEX_BASE    == <<16384, 0>>
VERTEX_COUNT   == <<32768, 0>>

DrawFlags_empty == <<0, 0>>
DrawFlags_all == <<INSTANCE_BASE[1] + INSTANCE_COUNT[1] + VERTEX_BASE[1] + VERTEX_COUNT[1], 0>>

\* The flags only occupy the high half, one bit each.
DrawFlags_contains(flags, flag) == (flags[1] \div flag[1]) % 2 = 1

DrawFlags_insert(flags, flag) ==
    IF DrawFlags_contains(flags, flag) THEN flags ELSE <<flags[1] + flag[1], flags[2]>>

\* Bits that are no flag are dropped.
DrawFlags_from_bits_truncate(word) ==
    <<(word[1] \div INSTANCE_BASE[1]) * INSTANCE_BASE[1], 0>>

\* Parameter values of the draws: zero, one, and the largest u32.
DrawValues == {<<0, 0>>, <<0, 1>>, <<U16_RANGE - 1, U16_RANGE - 1>>}

Draw_default ==
    [instance_base |-> <<0, 0>>, instance_count |-> <<0, 1>>,
     vertex_base |-> <<0, 0>>, vertex_count |-> <<0, 0>>]

CommandWriter_new(data) == [state |-> Draw_default, flags |-> DrawFlags_all, data |-> data]

CommandReader_new(data) == [state |-> Draw_default, inner |-> data]

\* A buffer being written, then read: written and read are the draws passed
\* to the writer and the items the reader yielded.
DrawIdle ==
    [pc |-> "writing",                 \* "writing" | "reading" | "ended"
     w |-> CommandWriter_new(<<>>), written |-> <<>>,
     r |-> CommandReader_new(<<>>), read |-> <<>>]

\* for_each_set_flag: the fields whose flag is set, in the order of the arms.
FlagArms == <<[flag |-> INSTANCE_COUNT, field |-> "instance_count"],
              [flag |-> INSTANCE_BASE,  field |-> "instance_base"],
              [flag |-> VERTEX_COUNT,   field |-> "vertex_count"],
              [flag |-> VERTEX_BASE,    field |-> "vertex_base"]>>

FlagArmsBaseFirst == <<FlagArms[2], FlagArms[1], FlagArms[4], FlagArms[3]>>

RECURSIVE write_set_flags(_, _, _, _, _)
write_set_flags(arms, i, flags, state, data) ==
    IF i > Len(arms) THEN data
    ELSE write_set_flags(arms, i + 1, flags, state,
            IF DrawFlags_contains(flags, arms[i].flag)
            THEN Append(data, state[arms[i].field])
            ELSE data)

CommandWriter_flush_base_first(w) ==
    [w EXCEPT !.data = write_set_flags(FlagArmsBaseFirst, 1, w.flags, w.state,
                                       Append(w.data, w.flags)),
              !.flags = DrawFlags_empty]

\* CommandWriter::flush: the flags word, then the flagged fields; clears the flags.
CommandWriter_flush(w) ==
    [w EXCEPT !.data = write_set_flags(FlagArms, 1, w.flags, w.state,
                                       Append(w.data, w.flags)),
              !.flags = DrawFlags_empty]

\* One "if changed" statement of CommandWriter::draw.
set_if_changed(w, field, flag, value) ==
    IF value # w.state[field]
    THEN [w EXCEPT !.state[field] = value, !.flags = DrawFlags_insert(@, flag)]
    ELSE w

CommandWriter_draw(w, instance_base, instance_count, vertex_base, vertex_count) ==
    LET w1 == set_if_changed(w, "instance_base", INSTANCE_BASE, instance_base)
        w2 == set_if_changed(w1, "instance_count", INSTANCE_COUNT, instance_count)
        w3 == set_if_changed(w2, "vertex_base", VERTEX_BASE, vertex_base)
        w4 == set_if_changed(w3, "vertex_count", VERTEX_COUNT, vertex_count)
    IN  CommandWriter_flush(w4)

\* The arms of next_impl from the i-th on: each set flag takes the next word
\* (expect_u32), and a missing word is Error::Bug.
RECURSIVE read_set_flags(_, _, _)
read_set_flags(i, flags, r) ==
    IF i > Len(FlagArms) THEN [r |-> r, item |-> [ok |-> TRUE, draw |-> r.state]]
    ELSE IF ~DrawFlags_contains(flags, FlagArms[i].flag) THEN read_set_flags(i + 1, flags, r)
    ELSE IF r.inner = <<>> THEN [r |-> r, item |-> [ok |-> FALSE, error |-> "Bug"]]
    ELSE read_set_flags(i + 1, flags,
            [r EXCEPT !.state[FlagArms[i].field] = Head(r.inner), !.inner = Tail(r.inner)])

\* CommandReader::next: [r, item], item = None at the end of the buffer.
CommandReader_next(r) ==
    IF r.inner = <<>> THEN [r |-> r, item |-> None]
    ELSE read_set_flags(1, DrawFlags_from_bits_truncate(Head(r.inner)),
                        [r EXCEPT !.inner = Tail(r.inner)])

----------------------------------------------------------------------------
\* transfer.rs: the upload pool.

UploadIndices == 0..(NumUploadBuffers - 1)
UploadDsts == 1..NumUploadDsts
UploadLens == {n \in 0..MaxUploadLen : n % 2 = 0}

\* UploadBuffer::create: an empty buffer; info.size is UploadBufferSize.
UploadBuffer_create ==
    [cursor |-> 0, buffer_copies |-> <<>>, buffer_ownership |-> {}, timeline_value |-> 1]

\* UploadBuffer::range_mut: None if the range does not fit, else the buffer
\* and the range handed out: start and size of the slice, and src_offset.
UploadBuffer_range_mut(buf, size, align) ==
    LET cursor == buf.cursor
        cursor_rem == cursor % align
        aligned_cursor == IF cursor_rem # 0 THEN (cursor - cursor_rem) + align ELSE cursor
        end == aligned_cursor + size
    IN  IF end > UploadBufferSize THEN None
        ELSE LET src_offset == cursor
                 updated == [buf EXCEPT !.cursor = cursor]
             IN  Some([buf |-> updated,
                       range |-> [start |-> updated.cursor, size |-> size,
                                  align |-> align, src_offset |-> src_offset]])

\* UploadBuffer::prepare_owned_buffer: remembers the destination's sync state.
UploadBuffer_prepare_owned_buffer(buf, dst) ==
    [buf EXCEPT !.buffer_ownership = @ \cup {dst}]

\* UploadBufferRangeMut::copy_from_slice: the copy recorded for a range.
UploadBufferRangeMut_copy_from_slice(range, dst) ==
    [dst_key |-> dst, src_offset |-> range.src_offset, dst_offset |-> 0,
     size |-> range.size]

\* UploadPool::is_available: the status of the buffer's fence.
UploadPool_is_available(p, idx) == p.available[idx]

\* UploadPool::wait_any_available: the first buffer whose fence is signaled
\* (the call blocks while there is none).
UploadPool_wait_any_available(p) ==
    CHOOSE idx \in UploadIndices :
        /\ UploadPool_is_available(p, idx)
        /\ \A j \in UploadIndices : UploadPool_is_available(p, j) => idx <= j

\* UploadPool::begin_buffer: the two assertions, then the command buffer of
\* the buffer is reset and begun. It does not assign current.
UploadPool_begin_buffer(p, idx) ==
    IF IsSome(p.current)
    THEN [p EXCEPT !.panic = "assertion failed: self.current.is_none()"]
    ELSE IF ~UploadPool_is_available(p, idx)
    THEN [p EXCEPT !.panic = "assertion failed: self.is_available(idx)"]
    ELSE [p EXCEPT !.cmd[idx] = "recording"]

\* The pool as a record: owner is the ownership of each destination buffer
\* in the device's buffer pool (the upload buffer that acquired it), pending
\* the submissions the device has not completed. ranges, scheduled,
\* submissions, last and submit_calls record what the calls handed out and
\* returned; regular tells that every copy so far succeeded and every submit
\* so far followed at least one copy, all to distinct destinations.
UploadPool_new ==
    [current |-> None,
     buffers |-> [i \in UploadIndices |-> UploadBuffer_create],
     available |-> [i \in UploadIndices |-> TRUE],
     cmd |-> [i \in UploadIndices |-> "initial"],
     owner |-> [k \in UploadDsts |-> None],
     pending |-> <<>>,
     ranges |-> [i \in UploadIndices |-> <<>>],
     scheduled |-> <<>>,
     submissions |-> <<>>,
     last |-> [call |-> "create"],
     submit_calls |-> 0,
     regular |-> TRUE,
     panic |-> "",
     calls |-> 0]

\* UploadPool::create: begins the first available buffer and makes it current.
UploadPool_create ==
    LET pool0 == UploadPool_new
        idx == UploadPool_wait_any_available(pool0)
        begun == UploadPool_begin_buffer(pool0, idx)
    IN  [begun EXCEPT !.current = Some(idx)]

UploadIdle == UploadPool_create

\* Ownership::acquire on a destination buffer by the owner id of buffer idx.
Upload_acquire(p, dst, idx) ==
    IF IsSome(p.owner[dst]) /\ Unwrap(p.owner[dst]) # idx
    THEN [p EXCEPT !.panic = "assertion failed: o == owner"]
    ELSE [p EXCEPT !.owner[dst] = Some(idx)]

\* UploadPool::copy_bytes_to_buffer with a source of len bytes.
UploadPool_copy_bytes_to_buffer(p, len, dst) ==
    LET fresh == ~IsSome(p.current)
        idx == IF fresh THEN UploadPool_wait_any_available(p) ELSE Unwrap(p.current)
        p1 == IF fresh THEN UploadPool_begin_buffer(p, idx) ELSE p
        p2 == Upload_acquire(p1, dst, idx)
        p3 == [p2 EXCEPT !.buffers[idx] = UploadBuffer_prepare_owned_buffer(@, dst)]
        r == UploadBuffer_range_mut(p3.buffers[idx], len, 4)
    IN  IF p1.panic # "" THEN p1
        ELSE IF p2.panic # "" THEN p2
        ELSE IF r = None
        THEN [p3 EXCEPT !.last = [call |-> "copy", ok |-> FALSE, error |-> "CapacityError"]]
        ELSE LET got == Unwrap(r)
                 buf_copy == UploadBufferRangeMut_copy_from_slice(got.range, dst)
             IN  [p3 EXCEPT
                    !.buffers[idx] = [got.buf EXCEPT !.buffer_copies = Append(@, buf_copy)],
                    !.ranges[idx] = Append(@, got.range),
                    !.scheduled = Append(@, buf_copy),
                    !.last = [call |-> "copy", ok |-> TRUE, buffer |-> idx]]

\* The assertion of submit on two neighbours of the sorted copies with the
\* same destination: it fails when two copies to one destination are not
\* empty, and may fail, depending on where sort_unstable_by leaves copies
\* that compare equal, when a non-empty copy has a neighbour.
SameDst(copies, k) == {i \in DOMAIN copies : copies[i].dst_key = k}

DstOverlapCertain(copies) ==
    \E k \in UploadDsts :
        Cardinality({i \in SameDst(copies, k) : copies[i].size > 0}) >= 2

DstOverlapPossible(copies) ==
    \E k \in UploadDsts :
        /\ Cardinality(SameDst(copies, k)) >= 2
        /\ \E i \in SameDst(copies, k) : copies[i].size > 0

\* UploadPool::submit; asserted tells whether the overlap assertion failed.
UploadPool_submit(p, asserted) ==
    IF ~IsSome(p.current)
    THEN [p EXCEPT !.panic = "called Option::unwrap() on a None value",
                   !.last = [call |-> "submit", ok |-> FALSE, scheduled |-> p.scheduled]]
    ELSE LET idx == Unwrap(p.current)
             buffer == p.buffers[idx]
             taken == [p EXCEPT !.current = None]
         IN  IF buffer.buffer_copies = <<>>
             THEN [taken EXCEPT !.last = [call |-> "submit", ok |-> TRUE,
                                          scheduled |-> p.scheduled, submitted |-> <<>>],
                                !.scheduled = <<>>,
                                !.ranges[idx] = <<>>]
             ELSE IF asserted
             THEN [taken EXCEPT
                     !.panic = "assertion failed: a.dst_offset + a.size <= b.dst_offset",
                     !.last = [call |-> "submit", ok |-> FALSE, scheduled |-> p.scheduled]]
             ELSE IF \E i \in DOMAIN buffer.buffer_copies :
                        buffer.buffer_copies[i].dst_key \notin buffer.buffer_ownership
             THEN [taken EXCEPT
                     !.panic = "missing ownership data",
                     !.last = [call |-> "submit", ok |-> FALSE, scheduled |-> p.scheduled]]
             ELSE [taken EXCEPT
                     !.buffers[idx].timeline_value = @ + 1,
                     !.buffers[idx].buffer_ownership = {},
                     !.available[idx] = FALSE,
                     !.cmd[idx] = "pending",
                     !.pending = Append(@, idx),
                     !.owner = [k \in UploadDsts |->
                                   IF k \in buffer.buffer_ownership THEN None ELSE @[k]],
                     !.submissions = Append(@, [buffer |-> idx,
                                                timeline_value |-> buffer.timeline_value,
                                                copies |-> buffer.buffer_copies]),
                     !.last = [call |-> "submit", ok |-> TRUE,
                               scheduled |-> p.scheduled,
                               submitted |-> buffer.buffer_copies],
                     !.scheduled = <<>>,
                     !.ranges[idx] = <<>>]

UnitsIdle ==
    /\ spans = SpansIdle
    /\ rpass = RpassIdle
    /\ shared_queue = QueueIdle
    /\ arena = ArenaIdle
    /\ draw = DrawIdle
    /\ upload = UploadIdle

\* The state of the program before anything is added to the editor.
ProgramIdle ==
    /\ phase = "editing"
    /\ panic_msg = ""
    /\ num_images = 0
    /\ image_access = <<>>
    /\ image_usage = <<>>
    /\ nodes = <<>>
    /\ final_image = 0
    /\ gb = GraphBuilderNew
    /\ cur_depth = {}
    /\ graph = None
    /\ RuntimeInit
    /\ DisplayInit
    /\ frame_limit = 1
    /\ node_limit = MaxNodes

Init ==
    /\ phase = "editing"
    /\ panic_msg = ""
    /\ num_images = 0
    /\ image_access = <<>>
    /\ image_usage = <<>>
    /\ nodes = <<>>
    /\ final_image = 0
    /\ gb = GraphBuilderNew
    /\ cur_depth = {}
    /\ graph = None
    /\ RuntimeInit
    /\ DisplayInit
    /\ frame_limit = 1
    /\ node_limit = MaxNodes
    /\ PoolIdle
    /\ UnitsIdle

Panic(msg) ==
    /\ phase' = "panicked"
    /\ panic_msg' = msg

----------------------------------------------------------------------------
\* GraphEditor::add_image
AddImage ==
    /\ phase = "editing"
    /\ num_images < NumImages
    /\ num_images' = num_images + 1
    /\ image_access' = Append(image_access, ImageAccessesDefault)
    /\ image_usage' = Append(image_usage, {})
    /\ UNCHANGED <<phase, panic_msg, nodes, buildVars, runtimeVars, displayVars,
                   frame_limit,
                   node_limit, poolVars, unitVars>>

\* GraphEditor::add_node
AddNode ==
    /\ phase = "editing"
    /\ Len(nodes) < node_limit
    /\ \E node \in NodeChoices(Len(nodes) + 1, num_images) :
          LET r == add_box_node(image_access, Len(nodes) + 1, node)
          IN IF r.panic # ""
             THEN /\ Panic(r.panic)
                  /\ UNCHANGED <<image_access, image_usage, nodes>>
             ELSE /\ image_access' = r.ia
                  /\ image_usage' = add_box_node_usage(image_usage, node)
                  /\ nodes' = Append(nodes, node)
                  /\ UNCHANGED <<phase, panic_msg>>
    /\ UNCHANGED <<num_images, buildVars, runtimeVars, displayVars, frame_limit,
                   node_limit, poolVars, unitVars>>

\* GraphEditor::build up to the first visit: the producer of the final image is
\* the root of the traversal.
BuildBegin ==
    /\ phase = "editing"
    /\ \E final \in 1..num_images :
          /\ final_image' = final
          /\ IF ~IsSome(image_access[final].produced_by)
             THEN /\ Panic("can't set final image: not produced by any node")
                  /\ UNCHANGED <<gb, cur_depth>>
             ELSE LET final_node == Unwrap(image_access[final].produced_by).node_key
                  IN /\ phase' = "building"
                     /\ gb' = GraphBuilderBegin(final_node)
                     /\ cur_depth' = {final_node}
                     /\ UNCHANGED panic_msg
    /\ UNCHANGED <<editorVars, graph, runtimeVars, displayVars, frame_limit,
                   node_limit, poolVars, unitVars>>

\* GraphBuilder::build: one node drained from the current level is visited; after
\* the last node of the last level GraphEditor::build sorts and freezes the graph.
BuildVisit ==
    /\ phase = "building"
    /\ \E node_key \in cur_depth :
          LET b == visit(image_access, nodes, gb, node_key)
              rest == cur_depth \ {node_key}
          IN IF b.panic # ""
             THEN /\ Panic(b.panic)
                  /\ UNCHANGED <<gb, cur_depth, graph>>
             ELSE IF rest # {}
             THEN /\ gb' = b
                  /\ cur_depth' = rest
                  /\ UNCHANGED <<phase, panic_msg, graph>>
             ELSE IF b.next_depth # {}
             THEN /\ gb' = [b EXCEPT !.next_depth = {}]
                  /\ cur_depth' = b.next_depth
                  /\ UNCHANGED <<phase, panic_msg, graph>>
             ELSE LET f == Freeze(image_access, image_usage, nodes, final_image,
                                  b.dep_graph)
                  IN /\ gb' = b
                     /\ cur_depth' = {}
                     /\ graph' = f.graph
                     /\ IF f.panic # "" THEN Panic(f.panic)
                        ELSE /\ phase' = "built"
                             /\ UNCHANGED panic_msg
    /\ UNCHANGED <<editorVars, final_image, runtimeVars, displayVars, frame_limit,
                   node_limit, poolVars, unitVars>>

\* Runtime::new
RuntimeNew ==
    /\ phase = "built"
    /\ phase' = "running"
    /\ frame_counter' = 0
    /\ image_bindings' = ArenaMapInsert(<<>>, Unwrap(graph).swapchain_image, "Swapchain")
    /\ transient' = [b \in 0..(TRANSIENT_RESOURCE_INSTANCES - 1) |-> {}]
    /\ UNCHANGED <<panic_msg, editorVars, buildVars, cmd_log, executed, bank_log,
                   displayVars, frame_limit,
                   node_limit, poolVars, unitVars>>

\* Display::acquire_frame_context up to the wait for the slot's fence.
AcquireBegin ==
    /\ phase = "running"
    /\ pc = "idle"
    /\ current_frame < frame_limit
    /\ current_frame' = current_frame + 1
    /\ pc' = "waiting"
    /\ UNCHANGED <<phase, panic_msg, editorVars, buildVars, runtimeVars,
                   context_available, slot_pending, gpu_queue, submitted, cx,
                   frame_log, frame_limit,
                   node_limit, poolVars, unitVars>>

\* Display::acquire_frame_context from the wait on: the fence is signaled, the
\* swapchain hands out an image (or is out of date), and the context is attached,
\* which resets the command pool and begins the command buffer.
AcquireWait ==
    /\ phase = "running"
    /\ pc = "waiting"
    /\ acquire_context(context_available, FrameSlot(current_frame))
    /\ \E outcome \in {"ok", "suboptimal", "out_of_date"}, acquired \in 0..(NumFrames - 1) :
          LET r == acquire_frame_context(FrameSlot(current_frame), current_frame,
                                          outcome, acquired)
          IN /\ pc' = IF r.result = "OutOfDate" THEN "err_out_of_date" ELSE "recording"
             /\ cx' = r.cx
             /\ frame_log' = [frame_log EXCEPT ![current_frame] = @ \o r.issued]
    /\ UNCHANGED <<phase, panic_msg, editorVars, buildVars, runtimeVars,
                   current_frame, context_available, slot_pending, gpu_queue,
                   submitted, frame_limit,
                   node_limit, poolVars, unitVars>>

\* Runtime::execute, called by the host on the Ok context only.
Execute ==
    /\ phase = "running"
    /\ pc = "recording"
    /\ ~Unwrap(cx).suboptimal
    /\ LET g == Unwrap(graph)
           idx == transient_idx(frame_counter)
           walk == ExecuteWalk(g, image_bindings, idx, Unwrap(cx))
       IN /\ transient' = [transient EXCEPT
                              ![idx] = resolve_resources(g, image_bindings, @)]
          /\ cmd_log' = walk
          /\ executed' = executed \cup {walk[i].node : i \in DOMAIN walk}
          /\ bank_log' = Append(bank_log,
                 [bank |-> idx, frame |-> Unwrap(cx).frame,
                  busy |-> InFlight(gpu_queue, LastUserOf(bank_log, idx))])
          /\ frame_counter' = frame_counter_after_execute(frame_counter)
    /\ pc' = "executed"
    /\ frame_log' = [frame_log EXCEPT ![Unwrap(cx).frame] =
                        Append(@, [op |-> "execute", bank |-> transient_idx(frame_counter)])]
    /\ UNCHANGED <<phase, panic_msg, editorVars, buildVars, image_bindings,
                   current_frame, context_available, slot_pending, gpu_queue,
                   submitted, cx, frame_limit,
                   node_limit, poolVars, unitVars>>

\* FrameContext::submit_and_present: the fence is reset and handed to the
\* submission, which signals it on completion.
SubmitAndPresent ==
    /\ phase = "running"
    /\ pc = "executed"
    /\ LET c == Unwrap(cx)
       IN /\ frame_log' = [frame_log EXCEPT ![c.frame] =
                              @ \o submit_and_present(c.slot, c.image)]
          /\ context_available' = [context_available EXCEPT ![c.slot] = FALSE]
          /\ slot_pending' = [slot_pending EXCEPT ![c.slot] = c.frame]
          /\ gpu_queue' = Append(gpu_queue, [frame |-> c.frame, slot |-> c.slot])
          /\ submitted' = submitted \cup {c.frame}
    /\ pc' = "idle"
    /\ cx' = None
    /\ UNCHANGED <<phase, panic_msg, editorVars, buildVars, runtimeVars,
                   current_frame, frame_limit,
                   node_limit, poolVars, unitVars>>

\* redraw, the Err(_) arm on AcquireError::Suboptimal: the frame context is
\* dropped without being executed or submitted.
DropContext ==
    /\ phase = "running"
    /\ pc = "recording"
    /\ Unwrap(cx).suboptimal
    /\ pc' = "err_suboptimal"
    /\ cx' = None
    /\ UNCHANGED <<phase, panic_msg, editorVars, buildVars, runtimeVars,
                   current_frame, context_available, slot_pending, gpu_queue,
                   submitted, frame_log, frame_limit,
                   node_limit, poolVars, unitVars>>

\* redraw, the Err(_) arm: recreate_display calls Display::recreate, which
\* destroys the frame resources and creates them anew.
Recreate ==
    /\ phase = "running"
    /\ pc \in {"err_out_of_date", "err_suboptimal"}
    /\ \A s \in 0..(NumFrames - 1) : FrameResources_destroy(context_available, s)
    /\ pc' = "idle"
    /\ context_available' = [s \in 0..(NumFrames - 1) |-> FrameResources_create(s)]
    /\ slot_pending' = [s \in 0..(NumFrames - 1) |-> 0]
    /\ UNCHANGED <<phase, panic_msg, editorVars, buildVars, runtimeVars,
                   current_frame, gpu_queue, submitted, cx, frame_log, frame_limit,
                   node_limit, poolVars, unitVars>>

\* The GPU completes its oldest submission and signals the fence it was given.
GpuComplete ==
    /\ gpu_queue # <<>>
    /\ LET done == Head(gpu_queue)
       IN IF slot_pending[done.slot] = done.frame
          THEN /\ context_available' = [context_available EXCEPT ![done.slot] = TRUE]
               /\ slot_pending' = [slot_pending EXCEPT ![done.slot] = 0]
          ELSE UNCHANGED <<context_available, slot_pending>>
    /\ gpu_queue' = Tail(gpu_queue)
    /\ UNCHANGED <<phase, panic_msg, editorVars, buildVars, runtimeVars,
                   current_frame, submitted, pc, cx, frame_log, frame_limit,
                   node_limit, poolVars, unitVars>>

FrameNext ==
    \/ AcquireBegin
    \/ AcquireWait
    \/ Execute
    \/ SubmitAndPresent
    \/ DropContext
    \/ Recreate
    \/ GpuComplete

Next ==
    \/ AddImage
    \/ AddNode
    \/ BuildBegin
    \/ BuildVisit
    \/ RuntimeNew
    \/ FrameNext

Spec == Init /\ [][Next]_vars

----------------------------------------------------------------------------
\* The frame loop on its own, over the compiled graph of the blit example: a
\* render pass produces image 1 ("offscreen"), a blit reads it and produces
\* image 2 ("swapchain"), which is the final image.

BlitNodes ==
    <<[inputs |-> <<>>, outputs |-> <<OutputImage(1, None, ColorOutput)>>],
      [inputs |-> <<InputImage(1, BlitInput)>>,
       outputs |-> <<OutputImage(2, None, BlitOutput)>>]>>

BlitAccess ==
    add_box_node(
        add_box_node(<<ImageAccessesDefault, ImageAccessesDefault>>, 1, BlitNodes[1]).ia,
        2, BlitNodes[2]).ia

BlitBuilder ==
    visit(BlitAccess, BlitNodes,
          [visit(BlitAccess, BlitNodes, GraphBuilderBegin(2), 2) EXCEPT !.next_depth = {}],
          1)

BlitUsage ==
    add_box_node_usage(add_box_node_usage(<<{}, {}>>, BlitNodes[1]), BlitNodes[2])

BlitGraph == Freeze(BlitAccess, BlitUsage, BlitNodes, 2, BlitBuilder.dep_graph).graph

InitFrame ==
    /\ phase = "running"
    /\ panic_msg = ""
    /\ num_images = 2
    /\ image_access = BlitAccess
    /\ image_usage = BlitUsage
    /\ nodes = BlitNodes
    /\ final_image = 2
    /\ gb = BlitBuilder
    /\ cur_depth = {}
    /\ graph = BlitGraph
    /\ frame_counter = 0
    /\ image_bindings = ArenaMapInsert(<<>>, 2, "Swapchain")
    /\ transient = [b \in 0..(TRANSIENT_RESOURCE_INSTANCES - 1) |-> {}]
    /\ cmd_log = <<>>
    /\ executed = {}
    /\ bank_log = <<>>
    /\ DisplayInit
    /\ frame_limit = MaxFrames
    /\ node_limit = MaxNodes
    /\ PoolIdle
    /\ UnitsIdle

SpecFrame == InitFrame /\ [][FrameNext]_vars

----------------------------------------------------------------------------
\* The dependency relation as the nodes declare it, independent of the compiler.

ProducersOf(nds, image) ==
    {k \in DOMAIN nds : \E o \in Range(nds[k].outputs) : o.image = image}

ReadersOf(nds, image) ==
    {k \in DOMAIN nds : \E i \in Range(nds[k].inputs) : i.resource = image}

\* The nodes that must run before v: the producers of its inputs, and for every
\* image an output of v consumes its readers, or its producer when it has none.
DepsOf(nds, v) ==
    UNION {ProducersOf(nds, i.resource) : i \in Range(nds[v].inputs)}
    \cup UNION {IF ReadersOf(nds, Unwrap(o.consumed)) # {}
                THEN ReadersOf(nds, Unwrap(o.consumed))
                ELSE ProducersOf(nds, Unwrap(o.consumed)) :
                    o \in {x \in Range(nds[v].outputs) : IsSome(x.consumed)}}

RECURSIVE ClosureOf(_, _)
ClosureOf(nds, set) ==
    LET next == set \cup UNION {DepsOf(nds, v) : v \in set}
    IN IF next = set THEN set ELSE ClosureOf(nds, next)

\* The live nodes of build(final).
LiveNodes(nds, final) == ClosureOf(nds, ProducersOf(nds, final))

\* Every image a live node reads or consumes has a producer.
WellFormed(nds, final) ==
    /\ ProducersOf(nds, final) # {}
    /\ \A v \in LiveNodes(nds, final) :
          /\ \A i \in Range(nds[v].inputs) : ProducersOf(nds, i.resource) # {}
          /\ \A o \in Range(nds[v].outputs) :
                IsSome(o.consumed) => ProducersOf(nds, Unwrap(o.consumed)) # {}

AcyclicLive(nds, final) ==
    \A v \in LiveNodes(nds, final) : v \notin ClosureOf(nds, DepsOf(nds, v))

Compiled == phase \in {"built", "running"}
BuildEnded == final_image # 0 /\ phase \notin {"editing", "building"}

\* The compiled execution order as editor node keys.
OrderNodes(g) == [i \in DOMAIN g.graph_order |-> g.graph.nodes[g.graph_order[i]]]

Before(order, u, v) ==
    \E i \in DOMAIN order, j \in DOMAIN order : i < j /\ order[i] = u /\ order[j] = v

\* Does the dependency graph have a cycle (a self edge included).
RECURSIVE DgReach(_, _)
DgReach(dg, set) ==
    LET next == set \cup {e.dst : e \in {x \in Range(dg.edges) : x.src \in set}}
    IN IF next = set THEN set ELSE DgReach(dg, next)

DgCyclic(dg) ==
    \E e \in Range(dg.edges) : e.src \in DgReach(dg, {e.dst})

----------------------------------------------------------------------------
\* C1: in the execution order of a compiled graph, every node a live node
\* depends on (the producer of an image it reads or overwrites, a reader of an
\* image it overwrites) appears at a strictly smaller position than that node.
C1_DependenciesRunFirst ==
    Compiled =>
        \A v \in LiveNodes(nodes, final_image) : \A u \in DepsOf(nodes, v) :
            Before(OrderNodes(Unwrap(graph)), u, v)

\* C2: for every acyclic set of live nodes whose images all have producers,
\* build succeeds and the execution order holds every live node exactly once.
C2_AcyclicCompiles ==
    (BuildEnded /\ WellFormed(nodes, final_image) /\ AcyclicLive(nodes, final_image))
        => /\ Compiled
           /\ LET order == OrderNodes(Unwrap(graph))
              IN /\ Range(order) = LiveNodes(nodes, final_image)
                 /\ Len(order) = Cardinality(LiveNodes(nodes, final_image))

\* C3: a dependency graph with a cycle (of any length, a self edge included) is
\* never compiled: the sort fails on it.
C3_CyclicFails ==
    Compiled => ~DgCyclic(Unwrap(graph).graph)

\* C4: with exactly the nodes A (no fresh output: consumes X, produces Y) and B
\* (consumes Y, produces X), build(final = Y) ends in a panic of the circular
\* dependency assertion and no compiled graph exists.
CycleScenario ==
    /\ Len(nodes) = 2
    /\ \E x \in 1..num_images, y \in 1..num_images :
          /\ x # y
          /\ final_image = y
          /\ \E a \in 1..2, b \in 1..2 :
                /\ a # b
                /\ Len(nodes[a].outputs) = 1 /\ Len(nodes[b].outputs) = 1
                /\ nodes[a].outputs[1].image = y
                /\ nodes[a].outputs[1].consumed = Some(x)
                /\ nodes[b].outputs[1].image = x
                /\ nodes[b].outputs[1].consumed = Some(y)
    /\ nodes[1].inputs = <<>> /\ nodes[2].inputs = <<>>

C4_CycleRejected ==
    (CycleScenario /\ BuildEnded)
        => /\ phase = "panicked"
           /\ panic_msg = "assertion failed: circular dependency"
           /\ graph = None

C4_Witness ==
    /\ CycleScenario
    /\ phase = "panicked"
    /\ gb.dep_graph.edges # <<>>

----------------------------------------------------------------------------
\* What the runtime recorded, without the image handles.

Sig(b) ==
    [src_stage_mask |-> b.src_stage_mask, src_access_mask |-> b.src_access_mask,
     dst_stage_mask |-> b.dst_stage_mask, dst_access_mask |-> b.dst_access_mask,
     old_layout |-> b.old_layout, new_layout |-> b.new_layout]

\* The dependency barriers recorded before a node (not the transitions from UNDEFINED).
RecordedSigs(entry) ==
    {Sig(b) : b \in {x \in Range(entry.barriers) : x.old_layout # "UNDEFINED"}}

\* src: the earlier access, dst: the later access, both as declared.
DeclaredSig(first, second) ==
    [src_stage_mask |-> first.stage_mask, src_access_mask |-> first.access_mask,
     dst_stage_mask |-> second.stage_mask, dst_access_mask |-> second.access_mask,
     old_layout |-> first.layout, new_layout |-> second.layout]

ExecutionOnlySig(reader, writer) ==
    [src_stage_mask |-> reader.stage_mask, src_access_mask |-> {},
     dst_stage_mask |-> writer.stage_mask, dst_access_mask |-> {},
     old_layout |-> reader.layout, new_layout |-> writer.layout]

OutputsOn(nds, image) ==
    {o \in UNION {Range(nds[k].outputs) : k \in DOMAIN nds} : o.image = image}

InputsOn(nds, image) ==
    {i \in UNION {Range(nds[k].inputs) : k \in DOMAIN nds} : i.resource = image}

ExpectedRAW(nds, v) ==
    {DeclaredSig(w, r) : <<w, r>> \in
        UNION {OutputsOn(nds, i.resource) \X {i} : i \in Range(nds[v].inputs)}}

ExpectedWAW(nds, v) ==
    {DeclaredSig(w, o) : <<w, o>> \in
        UNION {OutputsOn(nds, Unwrap(o.consumed)) \X {o} :
            o \in {x \in Range(nds[v].outputs) :
                     IsSome(x.consumed) /\ ReadersOf(nds, Unwrap(x.consumed)) = {}}}}

ExpectedWAR(nds, v) ==
    {ExecutionOnlySig(r, o) : <<r, o>> \in
        UNION {InputsOn(nds, Unwrap(o.consumed)) \X {o} :
            o \in {x \in Range(nds[v].outputs) : IsSome(x.consumed)}}}

\* C5: before a node runs, the runtime records for each of its read-after-write
\* and write-after-write dependencies a barrier whose source masks and old layout
\* are those the producer declared and whose destination masks and new layout are
\* those the later access declared; it records no dependency barrier beyond the
\* declared ones (those and the write-after-read ones).
C5_MemoryBarriersExact ==
    pc = "executed" =>
        \A k \in DOMAIN cmd_log :
            LET v == cmd_log[k].node
            IN /\ (ExpectedRAW(nodes, v) \cup ExpectedWAW(nodes, v))
                      \subseteq RecordedSigs(cmd_log[k])
               /\ RecordedSigs(cmd_log[k]) \subseteq
                      (ExpectedRAW(nodes, v) \cup ExpectedWAW(nodes, v)
                           \cup ExpectedWAR(nodes, v))

C5_Witness ==
    /\ pc = "executed"
    /\ \E k \in DOMAIN cmd_log :
          /\ ExpectedRAW(nodes, cmd_log[k].node) # {}
          /\ ExpectedRAW(nodes, cmd_log[k].node) \subseteq RecordedSigs(cmd_log[k])

\* C6: for each write-after-read dependency the runtime records, before the
\* writer runs, a barrier with empty access masks on both sides, the reader's
\* stage as source, the writer's stage as destination, and the layouts
\* (reader.layout -> writer.layout).
C6_WriteAfterReadExecutionOnly ==
    pc = "executed" =>
        \A k \in DOMAIN cmd_log :
            ExpectedWAR(nodes, cmd_log[k].node) \subseteq RecordedSigs(cmd_log[k])

C6_Witness ==
    /\ pc = "executed"
    /\ \E k \in DOMAIN cmd_log : ExpectedWAR(nodes, cmd_log[k].node) # {}

----------------------------------------------------------------------------
\* C7: while a frame context is attached (the slot's command pool has been reset
\* and its command buffer is being recorded for frame i), no earlier submission
\* that used the slot is pending: the slot is that of frame i - N, its fence is
\* signaled, and every frame of the slot submitted before has completed.
C7_SlotReusedAfterFence ==
    /\ \A s \in DOMAIN slot_pending :
          slot_pending[s] # 0 => FrameSlot(slot_pending[s]) = s
    /\ pc \in {"recording", "executed"} =>
          LET c == Unwrap(cx)
          IN /\ c.slot = FrameSlot(c.frame)
             /\ (c.frame > NumFrames => c.slot = FrameSlot(c.frame - NumFrames))
             /\ context_available[c.slot]
             /\ slot_pending[c.slot] = 0

C7_Witness ==
    /\ pc = "recording"
    /\ Unwrap(cx).frame > NumFrames
    /\ (Unwrap(cx).frame - NumFrames) \in submitted
    /\ ~InFlight(gpu_queue, Unwrap(cx).frame - NumFrames)
    /\ InFlight(gpu_queue, Unwrap(cx).frame - 1)

\* C8: an execute call touches its transient bank only when the frame that last
\* used the bank is no longer executing on the GPU.
C8_BankIdleWhenTouched ==
    \A k \in DOMAIN bank_log : ~bank_log[k].busy

\* C9: the k-th execute call (counted from 0) uses bank k mod N, so two
\* consecutive execute calls never use the same bank.
C9_RoundRobinBanks ==
    \A k \in DOMAIN bank_log :
        /\ bank_log[k].bank = (k - 1) % TRANSIENT_RESOURCE_INSTANCES
        /\ (k > 1 => bank_log[k].bank # bank_log[k - 1].bank)

\* C10: a node that is not live (not reached from the producer of the final
\* image over the declared links) is not in the compiled execution order and is
\* never executed by the runtime.
C10_DeadNodesDiscarded ==
    Compiled =>
        \A n \in DOMAIN nodes :
            n \notin LiveNodes(nodes, final_image) =>
                /\ n \notin Range(OrderNodes(Unwrap(graph)))
                /\ n \notin executed

C10_Witness ==
    /\ pc = "executed"
    /\ executed # {}
    /\ \E n \in DOMAIN nodes : n \notin LiveNodes(nodes, final_image)

----------------------------------------------------------------------------
\* The output slots over all nodes that produce / consume the image.
ProducerSlots(nds, image) ==
    {<<k, i>> \in UNION {{k} \X DOMAIN nds[k].outputs : k \in DOMAIN nds} :
        nds[k].outputs[i].image = image}

ConsumerSlots(nds, image) ==
    {<<k, i>> \in UNION {{k} \X DOMAIN nds[k].outputs : k \in DOMAIN nds} :
        nds[k].outputs[i].consumed = Some(image)}

UniqueProducerConsumer ==
    \A image \in 1..num_images :
        /\ Cardinality(ProducerSlots(nodes, image)) <= 1
        /\ Cardinality(ConsumerSlots(nodes, image)) <= 1
        /\ (ProducerSlots(nodes, image) = {}) = ~IsSome(image_access[image].produced_by)
        /\ (ConsumerSlots(nodes, image) = {}) = ~IsSome(image_access[image].consumed_by)

\* An add_node call succeeds only for a node whose outputs produce images
\* without a producer and consume images without a consumer.
AddedNodeIsFirst ==
    Len(nodes') = Len(nodes) + 1 =>
        \A o \in Range(nodes'[Len(nodes')].outputs) :
            /\ ProducerSlots(nodes, o.image) = {}
            /\ IsSome(o.consumed) => ConsumerSlots(nodes, Unwrap(o.consumed)) = {}

\* C11: at every moment each image has at most one producer and at most one
\* consumer among the nodes of the editor, and no add_node call that would
\* record a second producer or a second consumer adds its node (it panics).
C11_UniqueProducerConsumer ==
    [](UniqueProducerConsumer) /\ [][AddedNodeIsFirst]_vars

C11_Witness ==
    /\ phase = "panicked"
    /\ panic_msg = "resource producer is already set"
    /\ \E image \in 1..num_images : Cardinality(ProducerSlots(nodes, image)) = 1

\* C12: when two readers of one image declare different layouts (read_layout
\* of the image panics), build ends in a panic and no compiled graph exists.
C12_ReaderLayoutsChecked ==
    (BuildEnded /\ \E image \in 1..num_images :
        read_layout(image_access[image]).panic = "image is read with multiple layouts")
        => (phase = "panicked" /\ graph = None)

\* The usage contributions of every input and output slot naming the image.
UsageContributions(nds, image) ==
    UNION ({i.usage : i \in InputsOn(nds, image)}
           \cup {o.usage : o \in OutputsOn(nds, image)})

\* C13: the usage mask of every image of a compiled graph is the union (bitwise
\* OR) of the usage contributions of all input and output slots naming it, over
\* all nodes added to the editor.
C13_UsageAccumulated ==
    Compiled =>
        \A image \in 1..num_images :
            Unwrap(graph).image_usage[image] = UsageContributions(nodes, image)

C13_Witness ==
    /\ Compiled
    /\ \E image \in 1..num_images :
          /\ Cardinality(Unwrap(graph).image_usage[image]) >= 2
          /\ InputsOn(nodes, image) # {}
          /\ OutputsOn(nodes, image) # {}

----------------------------------------------------------------------------
\* The barriers of a step that take the image out of the UNDEFINED layout.
UndefinedBarriers(entry, image) ==
    {j \in DOMAIN entry.barriers :
        /\ entry.barriers[j].old_layout = "UNDEFINED"
        /\ entry.barriers[j].graph_image = image}

\* C14: in the step of every executed node, recorded before the node's own
\* commands, each output that consumes no image has exactly one barrier
\* UNDEFINED -> its declared layout whose source stage and access equal its
\* destination stage and access (the declared ones), and an output that consumes
\* an image has no barrier from UNDEFINED.
C14_FreshOutputsFromUndefined ==
    pc = "executed" =>
        \A k \in DOMAIN cmd_log :
            \A o \in Range(nodes[cmd_log[k].node].outputs) :
                LET und == UndefinedBarriers(cmd_log[k], o.image)
                IN IF IsSome(o.consumed) THEN und = {}
                   ELSE /\ Cardinality(und) = 1
                        /\ \A j \in und :
                              LET b == cmd_log[k].barriers[j]
                              IN /\ b.new_layout = o.layout
                                 /\ b.src_stage_mask = o.stage_mask
                                 /\ b.dst_stage_mask = o.stage_mask
                                 /\ b.src_access_mask = o.access_mask
                                 /\ b.dst_access_mask = o.access_mask

C14_Witness ==
    /\ pc = "executed"
    /\ \E k \in DOMAIN cmd_log : \E o \in Range(nodes[cmd_log[k].node].outputs) :
          ~IsSome(o.consumed)
    /\ \E k \in DOMAIN cmd_log : \E o \in Range(nodes[cmd_log[k].node].outputs) :
          IsSome(o.consumed)

----------------------------------------------------------------------------
\* The editor and the compiler on their own, over EdgeImages images that have
\* already been added: enough images for two accesses between one pair of nodes
\* in a graph that compiles.

InitEdges ==
    /\ phase = "editing"
    /\ panic_msg = ""
    /\ num_images = EdgeImages
    /\ image_access = [i \in 1..EdgeImages |-> ImageAccessesDefault]
    /\ image_usage = [i \in 1..EdgeImages |-> {}]
    /\ nodes = <<>>
    /\ final_image = 0
    /\ gb = GraphBuilderNew
    /\ cur_depth = {}
    /\ graph = None
    /\ RuntimeInit
    /\ DisplayInit
    /\ frame_limit = 1
    /\ node_limit = EdgeNodes
    /\ PoolIdle
    /\ UnitsIdle

EdgesNext ==
    \/ AddNode
    \/ BuildBegin
    \/ BuildVisit

SpecEdges == InitEdges /\ [][EdgesNext]_vars

\* The number of accesses of editor node v that create a dependency on editor
\* node u: inputs whose producer is u, outputs consuming an image u reads, and
\* outputs consuming an image without readers that u produces.
AccessCount(nds, ia, v, u) ==
    Cardinality({i \in DOMAIN nds[v].inputs :
        LET a == ia[nds[v].inputs[i].resource]
        IN IsSome(a.produced_by) /\ Unwrap(a.produced_by).node_key = u})
    + Cardinality({<<j, k>> \in UNION {{j} \X DOMAIN ia[Unwrap(nds[v].outputs[j].consumed)].read_by :
                        j \in {x \in DOMAIN nds[v].outputs : IsSome(nds[v].outputs[x].consumed)}} :
        ia[Unwrap(nds[v].outputs[j].consumed)].read_by[k].node_key = u})
    + Cardinality({j \in DOMAIN nds[v].outputs :
        /\ IsSome(nds[v].outputs[j].consumed)
        /\ LET a == ia[Unwrap(nds[v].outputs[j].consumed)]
           IN /\ a.read_by = <<>>
              /\ IsSome(a.produced_by)
              /\ Unwrap(a.produced_by).node_key = u})

\* No ordered pair of nodes has two edges, and edge_map names every edge.
SingleEdgePerPair(dg) ==
    /\ \A i \in DOMAIN dg.edges, j \in DOMAIN dg.edges :
          dg.edges[i] = dg.edges[j] => i = j
    /\ \A i \in DOMAIN dg.edges :
          dg.edges[i] \in DOMAIN dg.edge_map /\ dg.edge_map[dg.edges[i]] = i

\* The weight of every edge of the compiled graph holds one descriptor per access.
OneDescriptorPerAccess(g) ==
    \A i \in DOMAIN g.graph.edges :
        Len(g.graph.edge_weights[i].images) =
            AccessCount(g.nodes, g.image_access,
                        g.graph.nodes[g.graph.edges[i].src],
                        g.graph.nodes[g.graph.edges[i].dst])

\* A step keeps the descriptors every existing edge already holds, in place.
DescriptorsKept ==
    \A i \in DOMAIN gb.dep_graph.edges :
        (i \in DOMAIN gb'.dep_graph.edges /\ gb'.dep_graph.edges[i] = gb.dep_graph.edges[i])
            => LET old == gb.dep_graph.edge_weights[i].images
                   new == gb'.dep_graph.edge_weights[i].images
               IN Len(old) <= Len(new) /\ SubSeq(new, 1, Len(old)) = old

\* C15: the dependency graph holds at most one edge per ordered pair of nodes;
\* in a compiled graph the weight of each edge holds exactly one barrier
\* descriptor per image access that creates a dependency between the pair; and
\* adding a descriptor never removes or changes a descriptor added before.
C15_EdgesUpserted ==
    /\ [](SingleEdgePerPair(gb.dep_graph))
    /\ [](Compiled => OneDescriptorPerAccess(Unwrap(graph)))
    /\ [][DescriptorsKept]_vars

C15_Witness ==
    /\ Compiled
    /\ ~DgCyclic(Unwrap(graph).graph)
    /\ \E i \in DOMAIN Unwrap(graph).graph.edges :
          Len(Unwrap(graph).graph.edge_weights[i].images) >= 2

----------------------------------------------------------------------------
\* Calls on a resource pool, with the keys that create has handed out.

\* A pool on which slot 0 has been created and destroyed u32::MAX times: its
\* generation is u32::MAX, and the first key of the slot is still around.
Aged(p) ==
    [p EXCEPT !.generation[0] = u32_MAX,
              !.handle[0] = "destroyed",
              !.ownership[0] = OwnershipNew]

InitPool ==
    /\ phase = "editing"
    /\ panic_msg = ""
    /\ num_images = 0
    /\ image_access = <<>>
    /\ image_usage = <<>>
    /\ nodes = <<>>
    /\ final_image = 0
    /\ gb = GraphBuilderNew
    /\ cur_depth = {}
    /\ graph = None
    /\ RuntimeInit
    /\ DisplayInit
    /\ frame_limit = 1
    /\ node_limit = MaxNodes
    /\ \E kind \in {"ResourcePool", "BufferPool"}, profile \in {"debug", "release"},
          aged \in BOOLEAN :
          /\ pool = IF aged THEN Aged(with_capacity(kind, profile, PoolCap))
                    ELSE with_capacity(kind, profile, PoolCap)
          /\ issued = IF aged THEN {ResourceKey(u32_ZERO, 0)} ELSE {}
          /\ destroyed = IF aged THEN {ResourceKey(u32_ZERO, 0)} ELSE {}
    /\ held = [i \in Slots |-> None]
    /\ pool_last = NoCall
    /\ pool_panic = ""
    /\ pool_ops = 0
    /\ UnitsIdle

PoolCreate ==
    /\ pool_panic = ""
    /\ pool_ops < MaxPoolOps
    /\ LET r == create(pool)
       IN /\ pool' = r.pool
          /\ issued' = issued \cup Range(r.result)
          /\ held' = IF IsSome(r.result)
                     THEN [held EXCEPT ![Unwrap(r.result).index] = None]
                     ELSE held
          /\ pool_last' = [op |-> "create",
                           key |-> IF IsSome(r.result) THEN Unwrap(r.result) ELSE NoCall.key,
                           owner |-> 0, result |-> r.result, held |-> None]
    /\ pool_ops' = pool_ops + 1
    /\ UNCHANGED <<destroyed, pool_panic, programVars, unitVars>>

PoolDestroy ==
    /\ pool_panic = ""
    /\ pool_ops < MaxPoolOps
    /\ \E key \in issued :
       \E cur \in AssumeInit(pool.ownership[key.index]) :
          LET r == destroy(pool, key, cur)
          IN /\ pool' = r.pool
             /\ pool_panic' = r.panic
             /\ destroyed' = IF r.done THEN destroyed \cup {key} ELSE destroyed
             /\ held' = IF r.done THEN [held EXCEPT ![key.index] = None] ELSE held
             /\ pool_last' = [op |-> "destroy", key |-> key, owner |-> 0,
                              result |-> None, held |-> held[key.index]]
    /\ pool_ops' = pool_ops + 1
    /\ UNCHANGED <<issued, programVars, unitVars>>

PoolAcquire ==
    /\ pool_panic = ""
    /\ \E key \in issued, owner \in Owners :
       \E cur \in AssumeInit(pool.ownership[key.index]) :
          LET r == acquire(pool, key, owner, cur)
          IN /\ pool' = r.pool
             /\ pool_panic' = r.panic
             /\ held' = IF IsSome(r.result) /\ held[key.index] = None
                        THEN [held EXCEPT ![key.index] = Some(owner)]
                        ELSE held
             /\ pool_last' = [op |-> "acquire", key |-> key, owner |-> owner,
                              result |-> r.result, held |-> held[key.index]]
    /\ UNCHANGED <<issued, destroyed, pool_ops, programVars, unitVars>>

PoolRelease ==
    /\ pool_panic = ""
    /\ \E key \in issued, owner \in Owners :
       \E cur \in AssumeInit(pool.ownership[key.index]) :
          LET r == release(pool, key, owner, cur)
          IN /\ pool' = r.pool
             /\ pool_panic' = r.panic
             /\ held' = IF r.panic = "" THEN [held EXCEPT ![key.index] = None] ELSE held
             /\ pool_last' = [op |-> "release", key |-> key, owner |-> owner,
                              result |-> None, held |-> held[key.index]]
    /\ UNCHANGED <<issued, destroyed, pool_ops, programVars, unitVars>>

PoolHandle ==
    /\ pool_panic = ""
    /\ \E key \in issued :
          pool_last' = [op |-> "handle", key |-> key, owner |-> 0,
                        result |-> handle(pool, key), held |-> held[key.index]]
    /\ UNCHANGED <<pool, issued, destroyed, held, pool_panic, pool_ops, programVars, unitVars>>

PoolCold ==
    /\ pool_panic = ""
    /\ pool.kind = "ResourcePool"
    /\ \E key \in issued :
          pool_last' = [op |-> "cold", key |-> key, owner |-> 0,
                        result |-> cold(pool, key), held |-> held[key.index]]
    /\ UNCHANGED <<pool, issued, destroyed, held, pool_panic, pool_ops, programVars, unitVars>>

PoolNext ==
    \/ PoolCreate
    \/ PoolDestroy
    \/ PoolAcquire
    \/ PoolRelease
    \/ PoolHandle
    \/ PoolCold

SpecPool == InitPool /\ [][PoolNext]_vars

\* C16: a key that was created and then destroyed is rejected by every accessor
\* (acquire, handle, cold return None for it) in every later state of the pool,
\* and no later create returns that key again.
C16_StaleKeysRejected ==
    /\ \A key \in destroyed :
          /\ handle(pool, key) = None
          /\ cold(pool, key) = None
          /\ \A owner \in Owners : \A cur \in AssumeInit(pool.ownership[key.index]) :
                acquire(pool, key, owner, cur).result = None
    /\ (pool_last.op \in {"acquire", "handle", "cold"} /\ pool_last.key \in destroyed) =>
          pool_last.result = None
    /\ (pool_last.op = "create" /\ IsSome(pool_last.result)) =>
          Unwrap(pool_last.result) \notin destroyed

\* C17: an acquire on a live resource that no owner holds returns and leaves the
\* caller as the owner; an acquire on a resource another owner holds fails and
\* leaves that owner in place. The owner the pool stores is the one that holds it.
C17_SingleOwner ==
    (pool_last.op = "acquire" /\ check_key(pool, pool_last.key)) =>
        LET stored == pool.ownership[pool_last.key.index]
        IN /\ (pool_last.held = None =>
                  /\ pool_panic = ""
                  /\ IsSome(pool_last.result)
                  /\ stored = [init |-> TRUE, owner |-> Some(pool_last.owner)])
           /\ ((IsSome(pool_last.held) /\ pool_last.held # Some(pool_last.owner)) =>
                  /\ pool_panic # ""
                  /\ pool_last.result = None
                  /\ stored = [init |-> TRUE, owner |-> pool_last.held])

----------------------------------------------------------------------------
\* The node loop of Runtime::execute with nodes that open and close debug spans.

InitSpans ==
    /\ ProgramIdle
    /\ PoolIdle
    /\ UnitsIdle

\* Runtime::execute, one iteration up to the call of the node: the node's label
\* is pushed and the node context is made from a copy of the run context.
SpanNodeBegin ==
    /\ spans.pc = "loop"
    /\ spans.steps < MaxSpanNodes
    /\ LET r == RunContext_enter_debug_span(spans.run_spans, spans.commands, "node")
       IN spans' = [spans EXCEPT !.pc = "node",
                                 !.step_start = Len(spans.commands),
                                 !.run_spans = r.count,
                                 !.commands = r.commands,
                                 !.copy_spans = r.count,
                                 !.node_spans = 0,
                                 !.calls = 0,
                                 !.stray = 0]
    /\ UNCHANGED <<programVars, poolVars, unitsButSpans>>

\* The node calls NodeContext::enter_debug_span.
SpanEnter ==
    /\ spans.pc = "node"
    /\ spans.calls < MaxSpanCalls
    /\ spans' = [NodeContext_enter_debug_span(spans, "span") EXCEPT !.calls = @ + 1]
    /\ UNCHANGED <<programVars, poolVars, unitsButSpans>>

\* The node calls NodeContext::exit_debug_span.
SpanExit ==
    /\ spans.pc = "node"
    /\ spans.calls < MaxSpanCalls
    /\ spans' = [NodeContext_exit_debug_span(spans) EXCEPT !.calls = @ + 1]
    /\ UNCHANGED <<programVars, poolVars, unitsButSpans>>

\* The node returns: exit_all_debug_spans, the node context is dropped, and the
\* run context pops the node's label.
SpanNodeReturn ==
    /\ spans.pc = "node"
    /\ LET closed == NodeContext_drop(exit_all_debug_spans(spans))
           r == RunContext_exit_debug_span(closed.run_spans, closed.commands)
       IN spans' = [closed EXCEPT !.pc = "loop",
                                  !.commands = r.commands,
                                  !.run_spans = r.count,
                                  !.steps = @ + 1,
                                  !.stray = spans.node_spans]
    /\ UNCHANGED <<programVars, poolVars, unitsButSpans>>

\* The node panics: unwinding drops the node context and leaves execute.
SpanNodePanic ==
    /\ spans.pc = "node"
    /\ spans' = [NodeContext_drop(spans) EXCEPT !.pc = "panicked",
                                                !.stray = spans.node_spans]
    /\ UNCHANGED <<programVars, poolVars, unitsButSpans>>

SpansNext ==
    \/ SpanNodeBegin
    \/ SpanEnter
    \/ SpanExit
    \/ SpanNodeReturn
    \/ SpanNodePanic

SpecSpans == InitSpans /\ [][SpansNext]_vars

Begins(cmds) == Cardinality({i \in DOMAIN cmds : cmds[i].op = "cmd_begin_debug_utils_label"})
Ends(cmds) == Cardinality({i \in DOMAIN cmds : cmds[i].op = "cmd_end_debug_utils_label"})

\* Every end closes a begin recorded before it, and no begin stays open.
Balanced(cmds) ==
    /\ Begins(cmds) = Ends(cmds)
    /\ \A n \in 1..Len(cmds) : Begins(SubSeq(cmds, 1, n)) >= Ends(SubSeq(cmds, 1, n))

\* The commands of the current (or last) node's step.
StepCommands == SubSeq(spans.commands, spans.step_start + 1, Len(spans.commands))

----------------------------------------------------------------------------
\* The operations of one frame's log.

OpsAt(l, op) == {i \in DOMAIN l : l[i].op = op}

Reported(f, outcome) ==
    \E i \in OpsAt(frame_log[f], "acquire_next_image_2") :
        frame_log[f][i].result = outcome

FrameOver(f) == f < current_frame \/ (f = current_frame /\ cx = None /\ pc # "waiting")

After(l, op, i) == {j \in OpsAt(l, op) : j > i}

SubmitOrder(l, slot) ==
    \E b \in OpsAt(l, "cmd_pipeline_barrier2") :
        /\ l[b].new_layout = "PRESENT_SRC_KHR"
        /\ \E e \in After(l, "end_command_buffer", b) :
           \E r \in After(l, "reset_fences", e) :
              /\ l[r].fence = <<"context_available", slot>>
              /\ \E q \in After(l, "submit2", r) :
                    /\ l[q].wait = {<<"image_available", slot>>}
                    /\ l[q].signal = {<<"all_commands_complete", slot>>}
                    /\ l[q].fence = <<"context_available", slot>>
                    /\ \E p \in After(l, "present", q) :
                          l[p].wait = {<<"all_commands_complete", slot>>}

\* C18: for every submitted frame the final barrier to PRESENT_SRC is recorded,
\* then the command buffer is ended, then the availability fence is reset, then
\* the one queue submission is made (waiting on image-available, signaling
\* all-commands-complete and the availability fence), then the one present is
\* issued, waiting on all-commands-complete.
C18_SubmitThenPresent ==
    \A f \in submitted :
        /\ SubmitOrder(frame_log[f], FrameSlot(f))
        /\ Cardinality(OpsAt(frame_log[f], "submit2")) = 1
        /\ Cardinality(OpsAt(frame_log[f], "present")) = 1

C18_Witness ==
    /\ pc = "idle"
    /\ \E f \in submitted : f > 1 /\ OpsAt(frame_log[f], "present") # {}

\* C19: a frame whose image acquisition reported 'suboptimal' is still executed,
\* submitted and presented by the time the host is done with it.
C19_SuboptimalFrameContinues ==
    \A f \in 1..current_frame :
        (Reported(f, "suboptimal") /\ FrameOver(f)) =>
            /\ OpsAt(frame_log[f], "execute") # {}
            /\ f \in submitted
            /\ OpsAt(frame_log[f], "present") # {}

OutOfDateAborted ==
    \A f \in 1..current_frame :
        Reported(f, "out_of_date") =>
            /\ frame_log[f] = <<AcquireNextImage(FrameSlot(f), "out_of_date")>>
            /\ f \notin submitted
            /\ (f = current_frame => cx = None /\ pc \in {"err_out_of_date", "idle"})

RecreatedBeforeNextAcquire ==
    /\ current_frame' # current_frame => pc = "idle"
    /\ (pc = "err_out_of_date" /\ pc' # pc) =>
          /\ pc' = "idle"
          /\ current_frame' = current_frame
          /\ context_available' = [s \in 0..(NumFrames - 1) |-> TRUE]
          /\ slot_pending' = [s \in 0..(NumFrames - 1) |-> 0]

\* C20: a frame whose image acquisition reported 'out-of-date' is aborted: nothing
\* but the acquisition is issued for it, it is neither submitted nor presented,
\* and the host leaves the error only by recreating the display, before which no
\* further frame is acquired.
C20_OutOfDateAborts ==
    [](OutOfDateAborted) /\ [][RecreatedBeforeNextAcquire]_vars

C20_Witness ==
    /\ pc = "recording"
    /\ current_frame > 1
    /\ Reported(current_frame - 1, "out_of_date")
    /\ context_available = [s \in 0..(NumFrames - 1) |-> TRUE]

----------------------------------------------------------------------------
\* The blit example built through the editor: node 1 is the render pass writing
\* image 1, node 2 the blit from image 1 to image 2, the final image.

BlitScenario == nodes = BlitNodes /\ final_image = 2 /\ IsSome(graph)

RenderToBlit ==
    [image |-> 1,
     src_stage_mask |-> {"COLOR_ATTACHMENT_OUTPUT"},
     dst_stage_mask |-> {"BLIT"},
     src_access_mask |-> {"COLOR_ATTACHMENT_WRITE"},
     dst_access_mask |-> {"TRANSFER_READ"},
     old_layout |-> "COLOR_ATTACHMENT_OPTIMAL",
     new_layout |-> "TRANSFER_SRC_OPTIMAL"]

BarriersOf(node) ==
    UNION {Range(cmd_log[k].barriers) :
              k \in {j \in DOMAIN cmd_log : cmd_log[j].node = node}}

Transition(b) ==
    [graph_image |-> b.graph_image, kind |-> b.image.kind,
     src_stage_mask |-> b.src_stage_mask, dst_stage_mask |-> b.dst_stage_mask,
     src_access_mask |-> b.src_access_mask, dst_access_mask |-> b.dst_access_mask,
     old_layout |-> b.old_layout, new_layout |-> b.new_layout]

\* C22: the compiled blit example has one dependency edge, from the blit to the
\* render pass, carrying the one image barrier COLOR_ATTACHMENT_OUTPUT -> BLIT,
\* COLOR_ATTACHMENT_WRITE -> TRANSFER_READ, COLOR_ATTACHMENT_OPTIMAL ->
\* TRANSFER_SRC_OPTIMAL on the offscreen image; when executed, the blit node is
\* preceded by that barrier and by an UNDEFINED -> TRANSFER_DST_OPTIMAL barrier on
\* the swapchain image.
C22_BlitExampleBarriers ==
    BlitScenario =>
        LET g == Unwrap(graph)
        IN /\ Len(g.graph.edges) = 1
           /\ g.graph.nodes[g.graph.edges[1].src] = 2
           /\ g.graph.nodes[g.graph.edges[1].dst] = 1
           /\ g.graph.edge_weights[1].images = <<RenderToBlit>>
           /\ (pc = "executed" =>
                 {Transition(b) : b \in BarriersOf(2)} =
                     {[graph_image |-> 1, kind |-> "transient",
                       src_stage_mask |-> {"COLOR_ATTACHMENT_OUTPUT"},
                       dst_stage_mask |-> {"BLIT"},
                       src_access_mask |-> {"COLOR_ATTACHMENT_WRITE"},
                       dst_access_mask |-> {"TRANSFER_READ"},
                       old_layout |-> "COLOR_ATTACHMENT_OPTIMAL",
                       new_layout |-> "TRANSFER_SRC_OPTIMAL"],
                      [graph_image |-> 2, kind |-> "swapchain",
                       src_stage_mask |-> {"BLIT"}, dst_stage_mask |-> {"BLIT"},
                       src_access_mask |-> {"TRANSFER_WRITE"},
                       dst_access_mask |-> {"TRANSFER_WRITE"},
                       old_layout |-> "UNDEFINED",
                       new_layout |-> "TRANSFER_DST_OPTIMAL"]})

C22_Witness ==
    /\ BlitScenario
    /\ pc = "executed"
    /\ Cardinality(BarriersOf(2)) = 2

----------------------------------------------------------------------------
\* One render pass from its builder to the execution of its node, in a graph of
\* NumImages images of which the pass is the only node. Attachments consume
\* nothing.

InitRpass ==
    /\ ProgramIdle
    /\ PoolIdle
    /\ spans = SpansIdle
    /\ shared_queue = QueueIdle
    /\ arena = ArenaIdle
    /\ draw = DrawIdle
    /\ upload = UploadIdle
    /\ \E n \in 0..Len(PassLabels), depth \in BOOLEAN :
          rpass = RenderPassBuilder_new(SubSeq(PassLabels, 1, n), depth)

RpSetColorAttachment ==
    /\ rpass.pc = "builder"
    /\ \E i \in DOMAIN PassLabels, image \in 1..NumImages :
          LET r == set_color_attachment(rpass, PassLabels[i], image)
          IN rpass' = IF r.panic # ""
                      THEN [rpass EXCEPT !.pc = "panicked", !.panic = r.panic]
                      ELSE [rpass EXCEPT !.slots = r.slots]
    /\ UNCHANGED <<programVars, poolVars, unitsButRpass>>

RpSetDepthStencilAttachment ==
    /\ rpass.pc = "builder"
    /\ \E image \in 1..NumImages :
          rpass' = [rpass EXCEPT !.slots = set_depth_stencil_attachment(rpass, image)]
    /\ UNCHANGED <<programVars, poolVars, unitsButRpass>>

\* RenderPassBuilder::build: the node is handed to GraphEditor::add_node.
RpBuild ==
    /\ rpass.pc = "builder"
    /\ LET outputs == RenderPassBuilder_build(rpass)
           added == add_box_node([i \in 1..NumImages |-> ImageAccessesDefault], 1,
                                 [inputs |-> <<>>, outputs |-> outputs])
       IN rpass' = IF added.panic # ""
                   THEN [rpass EXCEPT !.pc = "panicked", !.panic = added.panic]
                   ELSE [rpass EXCEPT !.pc = "node", !.outputs = outputs]
    /\ UNCHANGED <<programVars, poolVars, unitsButRpass>>

\* GraphEditor::build with the pass as the only node.
RpCompile ==
    /\ rpass.pc = "node"
    /\ \E final \in 1..NumImages :
          LET nds == <<[inputs |-> <<>>, outputs |-> rpass.outputs]>>
              ia == add_box_node([i \in 1..NumImages |-> ImageAccessesDefault], 1,
                                 nds[1]).ia
              usage == add_box_node_usage([i \in 1..NumImages |-> {}], nds[1])
              b == visit(ia, nds, GraphBuilderBegin(1), 1)
              f == Freeze(ia, usage, nds, final, b.dep_graph)
          IN rpass' =
                IF ~IsSome(ia[final].produced_by)
                THEN [rpass EXCEPT !.pc = "panicked",
                         !.panic = "can't set final image: not produced by any node"]
                ELSE IF b.panic # ""
                THEN [rpass EXCEPT !.pc = "panicked", !.panic = b.panic]
                ELSE IF f.panic # ""
                THEN [rpass EXCEPT !.pc = "panicked", !.panic = f.panic]
                ELSE [rpass EXCEPT !.pc = "compiled", !.graph = f.graph]
    /\ UNCHANGED <<programVars, poolVars, unitsButRpass>>

\* Runtime::execute reaches the node: RenderPassNode::execute.
RpExecute ==
    /\ rpass.pc = "compiled"
    /\ LET msg == RenderPassNode_execute(rpass)
       IN rpass' = IF msg # ""
                   THEN [rpass EXCEPT !.pc = "panicked", !.panic = msg]
                   ELSE [rpass EXCEPT !.pc = "executed"]
    /\ UNCHANGED <<programVars, poolVars, unitsButRpass>>

RpassNext ==
    \/ RpSetColorAttachment
    \/ RpSetDepthStencilAttachment
    \/ RpBuild
    \/ RpCompile
    \/ RpExecute

SpecRpass == InitRpass /\ [][RpassNext]_vars

AllAttached(rp) ==
    /\ \A i \in DOMAIN rp.color_attachments :
          rp.color_attachments[i] \in DOMAIN rp.slots.color_attachments
    /\ rp.depth_attachment => IsSome(rp.slots.depth_stencil_attachment)

\* C23: a render-pass node is part of a compiled graph only if every attachment
\* its pass declares has an image attached, and the execution of the node never
\* ends on a missing attachment.
C23_MissingAttachmentRejected ==
    /\ rpass.pc \in {"compiled", "executed"} => AllAttached(rpass)
    /\ rpass.panic \notin {"no such attachment", "node missing depth/stencil attachment"}

\* C24: in every graph returned by build, every image registered in the editor
\* has exactly one producer: one output slot of one node names it, and the
\* graph's image accesses record that node as its producer.
C24_EveryImageProduced ==
    IsSome(graph) =>
        \A image \in 1..num_images :
            /\ IsSome(Unwrap(graph).image_access[image].produced_by)
            /\ Cardinality(ProducerSlots(Unwrap(graph).nodes, image)) = 1

----------------------------------------------------------------------------
\* Threads calling one Queue (its clones share the QueueStorage).

InitQueue ==
    /\ ProgramIdle
    /\ PoolIdle
    /\ UnitsIdle

\* A thread enters a Queue method; submit2 first takes its timeline value.
QueueCall ==
    /\ shared_queue.calls < MaxQueueCalls
    /\ \E t \in Threads, op \in QueueOps :
          /\ shared_queue.threads[t].pc = "idle"
          /\ shared_queue' =
                [shared_queue EXCEPT
                    !.calls = @ + 1,
                    !.timeline_value = IF op = "submit2" THEN @ + 1 ELSE @,
                    !.threads[t] = [pc |-> "lock", op |-> op,
                                    timeline_value |-> shared_queue.timeline_value]]
    /\ UNCHANGED <<programVars, poolVars, unitsButQueue>>

\* self.storage().handle.lock().unwrap(): the guard is taken, or the thread
\* panics on a poisoned mutex.
QueueLock ==
    /\ \E t \in Threads :
          /\ shared_queue.threads[t].pc = "lock"
          /\ Mutex_lock(shared_queue.handle)
          /\ shared_queue' =
                IF shared_queue.handle.poisoned
                THEN [shared_queue EXCEPT !.threads[t].pc = "panicked"]
                ELSE [shared_queue EXCEPT !.threads[t].pc = "raw",
                                          !.handle.locked_by = t]
    /\ UNCHANGED <<programVars, poolVars, unitsButQueue>>

\* The operation on the raw handle returns and the guard is dropped; wait_idle
\* panics on an error, which drops the guard while unwinding and poisons the mutex.
QueueUnlock ==
    /\ \E t \in Threads, ok \in BOOLEAN :
          /\ shared_queue.threads[t].pc = "raw"
          /\ shared_queue' =
                IF ~ok /\ shared_queue.threads[t].op = "wait_idle"
                THEN [shared_queue EXCEPT !.threads[t].pc = "panicked",
                                          !.handle = [locked_by |-> 0, poisoned |-> TRUE]]
                ELSE [shared_queue EXCEPT
                        !.threads[t].pc = "idle",
                        !.handle.locked_by = 0,
                        !.returned =
                            IF ok /\ shared_queue.threads[t].op = "submit2"
                            THEN Append(@, [thread |-> t,
                                            timeline_value |->
                                                shared_queue.threads[t].timeline_value])
                            ELSE @]
    /\ UNCHANGED <<programVars, poolVars, unitsButQueue>>

QueueNext ==
    \/ QueueCall
    \/ QueueLock
    \/ QueueUnlock

SpecQueue == InitQueue /\ [][QueueNext]_vars

InRaw == {t \in Threads : shared_queue.threads[t].pc = "raw"}

\* C25: at most one thread at a time is inside an operation on the raw queue
\* handle, and that thread is the one holding the mutex.
C25_QueueSerialized ==
    /\ Cardinality(InRaw) <= 1
    /\ \A t \in InRaw : shared_queue.handle.locked_by = t

C25_Witness ==
    /\ InRaw # {}
    /\ \E t \in Threads : shared_queue.threads[t].pc = "lock"

----------------------------------------------------------------------------
\* One arena receiving allocations.

InitArena ==
    /\ ProgramIdle
    /\ PoolIdle
    /\ UnitsIdle

ArenaAlloc ==
    /\ arena.panic = ""
    /\ Len(arena.items) < MaxArenaLen
    /\ \E v \in ArenaValues :
          IF ~fits_u32(Len(arena.items))
          THEN arena' = [arena EXCEPT !.panic = "length overflowed u32"]
          ELSE LET item == [value |-> v]
                   r == Arena_alloc(arena.items, item)
               IN  arena' = [arena EXCEPT
                                !.items = r.items,
                                !.returned = Append(@, [key |-> r.key, item |-> item])]
    /\ UNCHANGED <<programVars, poolVars, unitsButArena>>

ArenaAllocWithKey ==
    /\ arena.panic = ""
    /\ Len(arena.items) < MaxArenaLen
    /\ \E v \in ArenaValues :
          IF ~fits_u32(Len(arena.items))
          THEN arena' = [arena EXCEPT !.panic = "length overflowed u32"]
          ELSE LET r == Arena_alloc_with_key(arena.items, v)
               IN  arena' = [arena EXCEPT
                                !.items = r.items,
                                !.returned = Append(@, [key |-> r.key,
                                                        item |-> r.items[Len(r.items)]])]
    /\ UNCHANGED <<programVars, poolVars, unitsButArena>>

ArenaNext ==
    \/ ArenaAlloc
    \/ ArenaAllocWithKey

SpecArena == InitArena /\ [][ArenaNext]_vars

\* C26: the keys returned by the allocations made so far are pairwise
\* distinct, and indexing the arena with the i-th key still gives the i-th
\* value, whatever was allocated afterwards.
C26_ArenaKeysStable ==
    LET r == arena.returned
    IN  /\ \A i, j \in DOMAIN r : i # j => r[i].key # r[j].key
        /\ \A i \in DOMAIN r :
              /\ r[i].key.index < Len(arena.items)
              /\ Arena_index(arena.items, r[i].key) = r[i].item

C26_Witness ==
    /\ Len(arena.returned) = MaxArenaLen
    /\ \E i, j \in DOMAIN arena.returned :
          /\ i < j
          /\ "key" \in DOMAIN arena.returned[i].item
          /\ "key" \notin DOMAIN arena.returned[j].item
          /\ arena.returned[i].item.value = arena.returned[j].item.value

----------------------------------------------------------------------------
\* One buffer written by a CommandWriter and then read by a CommandReader.

InitDraw ==
    /\ ProgramIdle
    /\ PoolIdle
    /\ UnitsIdle

DrawWrite ==
    /\ draw.pc = "writing"
    /\ Len(draw.written) < MaxDraws
    /\ \E ib \in DrawValues, ic \in DrawValues, vb \in DrawValues, vc \in DrawValues :
          draw' = [draw EXCEPT
                      !.w = CommandWriter_draw(@, ib, ic, vb, vc),
                      !.written = Append(@, [instance_base |-> ib, instance_count |-> ic,
                                              vertex_base |-> vb, vertex_count |-> vc])]
    /\ UNCHANGED <<programVars, poolVars, unitsButDraw>>

\* drop(w); CommandReader::new(&buf)
DrawReaderNew ==
    /\ draw.pc = "writing"
    /\ draw' = [draw EXCEPT !.pc = "reading", !.r = CommandReader_new(draw.w.data)]
    /\ UNCHANGED <<programVars, poolVars, unitsButDraw>>

DrawRead ==
    /\ draw.pc = "reading"
    /\ LET n == CommandReader_next(draw.r)
       IN  draw' = IF n.item = None
                   THEN [draw EXCEPT !.pc = "ended", !.r = n.r]
                   ELSE [draw EXCEPT !.r = n.r, !.read = Append(@, n.item)]
    /\ UNCHANGED <<programVars, poolVars, unitsButDraw>>

DrawNext ==
    \/ DrawWrite
    \/ DrawReaderNew
    \/ DrawRead

SpecDraw == InitDraw /\ [][DrawNext]_vars

\* C27: the reader yields the written draws, with the same four values, in
\* the same order and without an error item, and ends after the last one.
C27_ReadBackWrittenDraws ==
    /\ draw.pc # "writing" =>
          /\ Len(draw.read) <= Len(draw.written)
          /\ \A i \in DOMAIN draw.read :
                draw.read[i] = [ok |-> TRUE, draw |-> draw.written[i]]
    /\ draw.pc = "ended" => Len(draw.read) = Len(draw.written)

C27_Witness ==
    /\ draw.pc = "ended"
    /\ Len(draw.read) = MaxDraws
    /\ draw.written[1] # draw.written[2]
    /\ draw.written[1].instance_base = draw.written[2].instance_base
    /\ draw.written[1].instance_base # draw.written[1].instance_count

----------------------------------------------------------------------------
\* Layouts named by the barriers of one frame's command buffer.

\* The image barriers recorded into the command buffer of the frame being
\* drawn, in recording order: attach, execute (cmd_log), submit_and_present.
FrameBarriers ==
    LET l == frame_log[current_frame]
    IN  Flatten([i \in DOMAIN l |->
            IF l[i].op = "cmd_pipeline_barrier2"
            THEN <<[image |-> [kind |-> "swapchain", bank |-> 0, image |-> l[i].image],
                    old_layout |-> l[i].old_layout, new_layout |-> l[i].new_layout]>>
            ELSE IF l[i].op = "execute"
            THEN Flatten([k \in DOMAIN cmd_log |->
                    [j \in DOMAIN cmd_log[k].barriers |->
                        [image |-> cmd_log[k].barriers[j].image,
                         old_layout |-> cmd_log[k].barriers[j].old_layout,
                         new_layout |-> cmd_log[k].barriers[j].new_layout]]])
            ELSE <<>>])

\* The barriers before the k-th that name the same physical image.
EarlierOn(bs, k) == {j \in 1..(k - 1) : bs[j].image = bs[k].image}

Max(S) == CHOOSE x \in S : \A y \in S : y <= x

LayoutContinues(bs, k) ==
    \/ bs[k].old_layout = "UNDEFINED"
    \/ /\ EarlierOn(bs, k) # {}
       /\ bs[k].old_layout = bs[Max(EarlierOn(bs, k))].new_layout

\* C28: in the command buffer of a frame, every image barrier's old layout is
\* UNDEFINED or the new layout of the latest earlier barrier on the same
\* physical image, the final barrier to PRESENT_SRC included.
C28_LayoutsContinue ==
    (current_frame \in DOMAIN frame_log /\ pc \in {"executed", "idle"}) =>
        \A k \in DOMAIN FrameBarriers : LayoutContinues(FrameBarriers, k)

----------------------------------------------------------------------------
\* Where execute records the barrier of a compiled dependency.

\* The entries of cmd_log (one per executed node: its barriers, then its
\* commands) that belong to the node.
EntriesOf(node) == {k \in DOMAIN cmd_log : cmd_log[k].node = node}

\* The barrier of dep is among those recorded in front of the d-th entry.
CarriedAt(d, dep) ==
    \E b \in DOMAIN cmd_log[d].barriers :
        cmd_log[d].barriers[b] = image_barrier(dep, cmd_log[d].barriers[b].image)

BarrierBetween(g, e) ==
    LET D == g.graph.nodes[g.graph.edges[e].src]
        P == g.graph.nodes[g.graph.edges[e].dst]
    IN  \A j \in DOMAIN g.graph.edge_weights[e].images :
            \E d \in EntriesOf(D) :
                /\ CarriedAt(d, g.graph.edge_weights[e].images[j])
                /\ \A k \in EntriesOf(D) : d <= k
                /\ \A p \in EntriesOf(P) : p < d

\* C29: after an execute, the barrier of every compiled dependency of D on P
\* has been recorded after all commands of P and before any command of D.
C29_BarrierBetweenNodes ==
    (IsSome(graph) /\ pc = "executed") =>
        \A e \in DOMAIN Unwrap(graph).graph.edges : BarrierBetween(Unwrap(graph), e)

\* The same for the graphs whose execution order holds every live node.
BarrierBetweenWhenOrdered ==
    (IsSome(graph) /\ pc = "executed") =>
        \A e \in DOMAIN Unwrap(graph).graph.edges :
            Len(Unwrap(graph).graph_order) = Len(Unwrap(graph).graph.nodes) =>
                BarrierBetween(Unwrap(graph), e)

----------------------------------------------------------------------------
\* Destruction of objects that submitted frames use.

\* The slots whose command buffer, fence and semaphores a submission that
\* has not completed uses.
SlotsInFlight == {gpu_queue[i].slot : i \in DOMAIN gpu_queue}

\* Display::recreate drains frames and images: every slot's objects and
\* every swapchain image view are destroyed.
SlotsDestroyedByRecreate == 0..(NumFrames - 1)

RecreateStep == pc \in {"err_out_of_date", "err_suboptimal"} /\ pc' = "idle"

\* C30: display recreation destroys no frame slot's objects (nor the swapchain
\* image views) while a submitted frame using them may still be executing.
C30_NoDestroyInFlight ==
    [][RecreateStep => SlotsInFlight \cap SlotsDestroyedByRecreate = {}]_vars

----------------------------------------------------------------------------
\* The frame loop with a GPU that finishes what is submitted to it and a host
\* thread that proceeds when its wait returns.

SpecFrameLive ==
    /\ InitFrame
    /\ [][FrameNext]_vars
    /\ WF_vars(GpuComplete)
    /\ WF_vars(AcquireWait)

\* An unsignaled fence was handed to a submission that is still in flight.
FenceBacked ==
    \A s \in DOMAIN context_available :
        ~context_available[s] =>
            \E i \in DOMAIN gpu_queue :
                gpu_queue[i].slot = s /\ gpu_queue[i].frame = slot_pending[s]

\* C31: an unsignaled context-availability fence always has a submission in
\* flight that will signal it, and every wait on a slot's fence returns.
C31_FenceWaitReturns ==
    /\ []FenceBacked
    /\ (pc = "waiting") ~> (pc # "waiting")

C31_Witness ==
    /\ pc = "waiting"
    /\ ~context_available[FrameSlot(current_frame)]

----------------------------------------------------------------------------
\* Ownership of a resource right after its creation.

\* The resource of the key has no owner, and an acquire by any owner returns
\* its state and makes that owner the owner.
FirstAcquireSucceeds(p, key) ==
    \A cur \in AssumeInit(p.ownership[key.index]) :
        /\ cur = None
        /\ \A owner \in Owners :
              LET r == acquire(p, key, owner, cur)
              IN /\ r.panic = ""
                 /\ IsSome(r.result)
                 /\ r.pool.ownership[key.index].owner = Some(owner)

\* C32: right after create returned a key the resource has no owner and the
\* first acquire by any owner succeeds, on a fresh slot and on a reused one.
C32_CreatedUnowned ==
    (pool_last.op = "create" /\ IsSome(pool_last.result)) =>
        FirstAcquireSucceeds(pool, Unwrap(pool_last.result))

\* The same for the BufferPool alone.
CreatedUnownedInBufferPool ==
    pool.kind = "BufferPool" => C32_CreatedUnowned

----------------------------------------------------------------------------
\* Destroying a resource that an owner holds.

\* The slot indices on the free list, from its head along the links; n bounds
\* the walk.
RECURSIVE FreeListFrom(_, _, _)
FreeListFrom(fl, at, n) ==
    IF at = None \/ n = 0 THEN <<>>
    ELSE <<Unwrap(at)>> \o FreeListFrom(fl, fl.links[Unwrap(at)], n - 1)

FreeSlots(fl) == FreeListFrom(fl, fl.head, PoolCap + 1)

\* C33: a destroy of a resource that an owner holds fails and changes
\* nothing: the GPU object is alive, the key is valid, and the slot is not on the
\* free list.
C33_DestroyOwnedHasNoEffect ==
    (pool_last.op = "destroy" /\ IsSome(pool_last.held)
        /\ pool_last.key \notin destroyed) =>
        /\ pool_panic # ""
        /\ pool.handle[pool_last.key.index] = "live"
        /\ check_key(pool, pool_last.key)
        /\ pool_last.key.index \notin Range(FreeSlots(pool.free_list))
        /\ held[pool_last.key.index] = pool_last.held

\* The same for the BufferPool alone.
DestroyOwnedHasNoEffectInBufferPool ==
    pool.kind = "BufferPool" => C33_DestroyOwnedHasNoEffect

----------------------------------------------------------------------------
\* A release by an owner that does not hold the resource.

\* C34: a release of a held resource by another owner fails and leaves the
\* resource with the owner that holds it.
C34_ForeignReleaseRejected ==
    (pool_last.op = "release" /\ check_key(pool, pool_last.key)
        /\ IsSome(pool_last.held) /\ pool_last.held # Some(pool_last.owner)) =>
        /\ pool_panic # ""
        /\ held[pool_last.key.index] = pool_last.held
        /\ pool.ownership[pool_last.key.index] = [init |-> TRUE, owner |-> pool_last.held]

----------------------------------------------------------------------------
\* Timeline values of concurrent submissions.

\* C35: the timeline values of the returned submission ids are pairwise
\* distinct and increase in the order in which the submissions reached the queue.
C35_TimelineFollowsQueueOrder ==
    \A i, j \in DOMAIN shared_queue.returned :
        i < j => shared_queue.returned[i].timeline_value
                    < shared_queue.returned[j].timeline_value

\* The values are pairwise distinct.
TimelineValuesDistinct ==
    \A i, j \in DOMAIN shared_queue.returned :
        i # j => shared_queue.returned[i].timeline_value
                    # shared_queue.returned[j].timeline_value

----------------------------------------------------------------------------
\* Layouts of the attachments of a render pass.

\* The layout the barrier in front of the node leaves the image in: the one
\* declared by the node's output for the image.
DeclaredLayouts(rp, image) ==
    {InitialBarrier(rp.outputs[k], image).new_layout :
        k \in {j \in DOMAIN rp.outputs : rp.outputs[j].image = image}}

\* C36: every attachment named when rendering begins, color or depth, is named
\* with the layout that the node's output access declares for its image.
C36_AttachmentLayoutsDeclared ==
    rpass.pc = "executed" =>
        \A i \in DOMAIN RenderPassNode_rendering_info(rpass) :
            LET att == RenderPassNode_rendering_info(rpass)[i]
            IN DeclaredLayouts(rpass, att.image) = {att.layout}

\* The same for the color attachments alone.
ColorLayoutsDeclared ==
    rpass.pc = "executed" =>
        \A i \in DOMAIN rpass.color_attachments :
            LET att == RenderPassNode_rendering_info(rpass)[i]
            IN DeclaredLayouts(rpass, att.image) = {att.layout}

----------------------------------------------------------------------------
\* Slots, live keys and the free list.

\* The slots holding a resource that was created and not destroyed since.
LiveSlots == {i \in Slots : pool.handle[i] = "live"}

\* The keys of those resources.
LiveKeys == {k \in issued : k.index \in LiveSlots /\ check_key(pool, k)}

FreeListExact ==
    LET free == FreeSlots(pool.free_list)
    IN  /\ Range(free) = Slots \ LiveSlots
        /\ Len(free) = Cardinality(Range(free))

\* C37: no two live keys share a slot, the free list holds each slot that is
\* not live exactly once, and create returns None only when every slot is live.
C37_SlotsAndFreeList ==
    pool_panic = "" =>
        /\ \A k1, k2 \in LiveKeys : k1 # k2 => k1.index # k2.index
        /\ FreeListExact
        /\ (pool_last.op = "create" /\ pool_last.result = None) => LiveSlots = Slots
        /\ (pool_last.op = "create" /\ IsSome(pool_last.result)) =>
              Unwrap(pool_last.result) \in LiveKeys

\* The same while no generation has wrapped around: every key issued is at
\* most as new as its slot.
SlotsAndFreeListBeforeWrap ==
    (\A k \in issued : ~u32_lt(pool.generation[k.index], k.generation)) =>
        C37_SlotsAndFreeList

----------------------------------------------------------------------------
\* One upload pool receiving copies and submissions while the device
\* completes the submitted ones.

InitUpload ==
    /\ ProgramIdle
    /\ PoolIdle
    /\ UnitsIdle

DistinctDsts(copies) ==
    \A i, j \in DOMAIN copies : i # j => copies[i].dst_key # copies[j].dst_key

UploadCopy ==
    /\ upload.panic = ""
    /\ upload.calls < MaxUploadCalls
    /\ IsSome(upload.current) \/ \E i \in UploadIndices : UploadPool_is_available(upload, i)
    /\ \E len \in UploadLens, dst \in UploadDsts :
          LET after == UploadPool_copy_bytes_to_buffer(upload, len, dst)
          IN  upload' = [after EXCEPT
                            !.calls = @ + 1,
                            !.regular = @ /\ after.panic = "" /\ after.last.ok]
    /\ UNCHANGED <<programVars, poolVars, unitsButUpload>>

UploadSubmit ==
    /\ upload.panic = ""
    /\ upload.calls < MaxUploadCalls
    /\ LET copies == IF IsSome(upload.current)
                     THEN upload.buffers[Unwrap(upload.current)].buffer_copies
                     ELSE <<>>
           outcomes == IF DstOverlapCertain(copies) THEN {TRUE}
                       ELSE IF DstOverlapPossible(copies) THEN {TRUE, FALSE}
                       ELSE {FALSE}
       IN  \E asserted \in outcomes :
              upload' = [UploadPool_submit(upload, asserted) EXCEPT
                            !.calls = @ + 1,
                            !.submit_calls = @ + 1,
                            !.regular = /\ @
                                        /\ upload.scheduled # <<>>
                                        /\ DistinctDsts(upload.scheduled)]
    /\ UNCHANGED <<programVars, poolVars, unitsButUpload>>

\* The device completes the oldest submission and signals its fence.
UploadGpuComplete ==
    /\ upload.pending # <<>>
    /\ LET idx == Head(upload.pending)
       IN  upload' = [upload EXCEPT !.pending = Tail(@),
                                    !.available[idx] = TRUE,
                                    !.cmd[idx] = "invalid"]
    /\ UNCHANGED <<programVars, poolVars, unitsButUpload>>

UploadNext ==
    \/ UploadCopy
    \/ UploadSubmit
    \/ UploadGpuComplete

SpecUpload == InitUpload /\ [][UploadNext]_vars

RangesOverlap(a, b) ==
    /\ a.size > 0
    /\ b.size > 0
    /\ a.start < b.start + b.size
    /\ b.start < a.start + a.size

RangeWellPlaced(r) ==
    /\ r.start % r.align = 0
    /\ r.start + r.size <= UploadBufferSize
    /\ r.src_offset = r.start

\* C38: in each upload buffer the staging ranges handed out since the last
\* submission are pairwise non-overlapping, each starts at an offset aligned
\* as requested and lies inside the buffer, and the source offset recorded
\* for a copy is the start of the range its bytes were written to.
C38_StagingRangesDisjoint ==
    \A b \in UploadIndices :
        /\ \A i \in DOMAIN upload.ranges[b] : RangeWellPlaced(upload.ranges[b][i])
        /\ \A i, j \in DOMAIN upload.ranges[b] :
              i # j => ~RangesOverlap(upload.ranges[b][i], upload.ranges[b][j])

\* What does hold: every range handed out is aligned, inside the buffer and
\* recorded with its own start as source offset.
StagingRangesWellPlaced ==
    \A b \in UploadIndices :
        \A i \in DOMAIN upload.ranges[b] : RangeWellPlaced(upload.ranges[b][i])

CopyBag(copies) ==
    [c \in Range(copies) |-> Cardinality({i \in DOMAIN copies : copies[i] = c})]

SubmitOfCycle ==
    /\ upload.last.call = "submit"
    /\ upload.regular

SubmitCompleted ==
    /\ upload.last.ok
    /\ CopyBag(upload.last.submitted) = CopyBag(upload.last.scheduled)

\* C39: from an idle pool, as long as the calls made are cycles of one or
\* more successful copy_bytes_to_buffer calls (here to distinct destinations)
\* followed by submit(), each submit completes without failure, however many
\* cycles came before, and submits exactly the copies scheduled since the
\* previous submit.
C39_UploadCycleRepeats == SubmitOfCycle => SubmitCompleted

\* What does hold: the first cycle after create completes and submits
\* exactly its copies.
FirstUploadCycleCompletes ==
    SubmitOfCycle /\ upload.submit_calls = 1 => SubmitCompleted

====
